---- MODULE Spec2Model ----
(***************************************************************************)
(* plus-express: request validation and OpenAPI composition on top of      *)
(* express.  The model follows the current revision of the sources:        *)
(*   registry.ts      (src/src/index.ts, lines 58-298)                     *)
(*   express-plus.ts  (src/src/express-plus.ts)                            *)
(*   router-plus.ts   (src/src/router-plus.ts, lines 71-155)               *)
(*   utils.ts         (src/unnamed/part_002, lines 1-151)                  *)
(* Strings that the code inspects character by character (paths) are       *)
(* sequences of one-character strings.                                     *)
(***************************************************************************)
EXTENDS Integers, Sequences, FiniteSets, TLC

VARIABLES
    definitions,   \* per registry: openApiRegistry.definitions
    mountRegistry, \* per application/router: its list of Mount Records
    defaults,      \* per registry: defaultQuerySchema, defaultHeaderSchema
    layers,        \* per application/router: what the native verb methods registered
    lastGen,       \* the most recent generateOpenAPIDocument call, while nothing changed since
    lastCall,      \* the most recent verb or use call and what it handed to the native method
    request,       \* the request most recently run through a handler chain
    inflight,      \* the requests that are inside a validation step right now
    openApiConfig  \* the OpenAPI config objects and the one each registry holds

vars ==
    <<definitions, mountRegistry, defaults, layers, lastGen, lastCall, request, inflight,
      openApiConfig>>

----------------------------------------------------------------------------
(* Bounds of the model *)

MaxRoutes == 2      \* enhanced verb calls, in total
MaxMounts == 2      \* Mount Records, in total
MaxGen == 2         \* consecutive generateOpenAPIDocument calls on one registry
MaxStore == 3       \* definitions in one registry's store
MaxMountLen == 3    \* length of the arbitrary mount path strings passed to use()
MaxPathLen == 4     \* length of the arbitrary route path strings
MaxInflight == 2    \* requests inside a validation step at the same time
MaxServers == 2     \* servers in the servers list of one OpenAPI config

----------------------------------------------------------------------------
(* Applications, routers, strings *)

Apps == {"app"}
Routers == {"rA", "rB"}
Owners == Apps \cup Routers

Slash == <<"/">>

StartsWith(s, c) == Len(s) >= 1 /\ s[1] = c
EndsWith(s, c) == Len(s) >= 1 /\ s[Len(s)] = c

\* String.prototype.substring(1)
Substring1(s) == IF Len(s) = 0 THEN s ELSE SubSeq(s, 2, Len(s))

\* String.prototype.slice(0, -1)
SliceDropLast(s) == IF Len(s) = 0 THEN s ELSE SubSeq(s, 1, Len(s) - 1)

RECURSIVE SumLen(_, _)
SumLen(f, S) ==
    IF S = {} THEN 0
    ELSE LET o == CHOOSE x \in S : TRUE IN Len(f[o]) + SumLen(f, S \ {o})

\* all strings over the alphabet A of length at most n
RECURSIVE StringsUpTo(_, _)
StringsUpTo(A, n) ==
    IF n = 0 THEN {<<>>}
    ELSE LET shorter == StringsUpTo(A, n - 1)
         IN shorter \cup {<<c>> \o s : c \in A, s \in {t \in shorter : Len(t) = n - 1}}

----------------------------------------------------------------------------
(* utils.ts: normalizeMountPath *)

NormalizeMountPath_KeepTrailing(mountPath) ==
    IF ~StartsWith(mountPath, "/") THEN Slash \o mountPath ELSE mountPath

normalizeMountPath(mountPath) ==
    LET n1 == IF ~StartsWith(mountPath, "/") THEN Slash \o mountPath ELSE mountPath
    IN IF EndsWith(n1, "/") /\ Len(n1) > 1 THEN SliceDropLast(n1) ELSE n1

----------------------------------------------------------------------------
(* registry.ts: path translation  path.replace(/[:*](\w+)/g, '{$1}') *)

WordChars == {"a", "b", "d", "e", "i", "l", "p", "r", "s", "t", "u", "x", "_"}

\* length of the maximal run of word characters of s starting at position i
RECURSIVE WordRun(_, _)
WordRun(s, i) ==
    IF i > Len(s) \/ s[i] \notin WordChars THEN 0 ELSE 1 + WordRun(s, i + 1)

RECURSIVE ReplaceFrom(_, _)
ReplaceFrom(s, i) ==
    IF i > Len(s) THEN <<>>
    ELSE IF s[i] \in {":", "*"} /\ WordRun(s, i + 1) > 0
         THEN LET n == WordRun(s, i + 1)
              IN <<"{">> \o SubSeq(s, i + 1, i + n) \o <<"}">> \o ReplaceFrom(s, i + n + 1)
         ELSE <<s[i]>> \o ReplaceFrom(s, i + 1)

\* path.replace(/[:*](\w+)/, '{$1}'): without the g flag only the first match
openApiPath_FirstOnly(path) ==
    LET starts == {i \in 1..Len(path) : path[i] \in {":", "*"} /\ WordRun(path, i + 1) > 0}
    IN IF starts = {} THEN path
       ELSE LET i == CHOOSE j \in starts : \A k \in starts : j <= k
                n == WordRun(path, i + 1)
            IN SubSeq(path, 1, i - 1) \o <<"{">> \o SubSeq(path, i + 1, i + n)
                 \o <<"}">> \o SubSeq(path, i + n + 1, Len(path))

openApiPath(path) == ReplaceFrom(path, 1)

----------------------------------------------------------------------------
(* The schema library (zod) as the registry uses it: object schemas with    *)
(* parse, merge and partial.  A value is a string or a number; coercion     *)
(* turns the first into the second.                                         *)

Str(s) == [s |-> s, n |-> 0, t |-> "str"]
Num(n) == [s |-> "", n |-> n, t |-> "num"]

\* a nested object value, as the query parser builds for filter[a]=1
Obj(m) == [t |-> "obj", m |-> m]

EmptyObj == [k \in {} |-> Str("")]

\* Number(v) of z.coerce.number(): the strings of the model that denote numbers
IsNumeric(v) == v.t = "num" \/ (v.t = "str" /\ v.s \in {"7", "200"})
ToNumber(v) ==
    IF v.t = "num" THEN v.n
    ELSE CASE v.s = "7" -> 7
           [] v.s = "200" -> 200
           [] OTHER -> 0

\* field definitions: z.enum([...]), z.coerce.number().min().max(), with
\* .default(d) and .optional()
EnumField(allowed) ==
    [allowed |-> allowed, kind |-> "enum", min |-> 0, max |-> 0,
     hasDefault |-> FALSE, dflt |-> Str(""), optional |-> FALSE]
NumberField(lo, hi) ==
    [allowed |-> {}, kind |-> "number", min |-> lo, max |-> hi,
     hasDefault |-> FALSE, dflt |-> Str(""), optional |-> FALSE]
\* z.object({ k: z.string().optional(), ... }) for the keys k: unknown keys
\* of the nested object are stripped
ObjectField(keys) ==
    [EnumField(keys) EXCEPT !.kind = "object"]
WithDefault(def, d) == [def EXCEPT !.hasDefault = TRUE, !.dflt = d]
Optional(def) == [def EXCEPT !.optional = TRUE]

EmptySchema == [k \in {} |-> EnumField({})]

\* the outcome of one field: present (has) with a value, absent, or an issue
FieldOk(v) == [ok |-> TRUE, has |-> TRUE, val |-> v, code |-> ""]
FieldAbsent == [ok |-> TRUE, has |-> FALSE, val |-> Str(""), code |-> ""]
FieldIssue(c) == [ok |-> FALSE, has |-> FALSE, val |-> Str(""), code |-> c]

ParseField(def, input, key) ==
    IF key \notin DOMAIN input
    THEN IF def.optional THEN FieldAbsent              \* ZodOptional: undefined passes
         ELSE IF def.hasDefault THEN FieldOk(def.dflt) \* ZodDefault
         ELSE FieldIssue("invalid_type")               \* Required
    ELSE LET v == input[key]
         IN IF def.kind = "enum"
            THEN IF v.t = "str" /\ v.s \in def.allowed
                 THEN FieldOk(v) ELSE FieldIssue("invalid_enum_value")
            ELSE IF def.kind = "object"
            THEN IF v.t = "obj"
                 THEN FieldOk(Obj([k \in DOMAIN v.m \cap def.allowed |-> v.m[k]]))
                 ELSE FieldIssue("invalid_type")
            ELSE IF ~IsNumeric(v) THEN FieldIssue("invalid_type")
                 ELSE IF ToNumber(v) < def.min THEN FieldIssue("too_small")
                 ELSE IF ToNumber(v) > def.max THEN FieldIssue("too_big")
                 ELSE FieldOk(Num(ToNumber(v)))

\* schema.parse(input): the parsed object (unknown keys stripped), or the
\* list of field-level issues that the thrown ZodError carries
Parse(schema, input) ==
    LET r == [k \in DOMAIN schema |-> ParseField(schema[k], input, k)]
        issues == {[path |-> k, code |-> r[k].code] : k \in {f \in DOMAIN schema : ~r[f].ok}}
        keys == {k \in DOMAIN schema : r[k].ok /\ r[k].has}
    IN [ok |-> issues = {},
        issues |-> issues,
        value |-> [k \in keys |-> r[k].val]]

\* a.merge(b): the shape {...a.shape, ...b.shape}
Merge_DefaultWins(a, b) ==
    [k \in DOMAIN a \cup DOMAIN b |-> IF k \in DOMAIN a THEN a[k] ELSE b[k]]

Merge(a, b) ==
    [k \in DOMAIN a \cup DOMAIN b |-> IF k \in DOMAIN b THEN b[k] ELSE a[k]]

\* the schema as declared: required fields stay required
Partial_AsDeclared(schema) == schema

\* schema.partial(): every field wrapped in an optional
Partial(schema) == [k \in DOMAIN schema |-> Optional(schema[k])]

\* extend(target, source) and {...target, ...source}
Extend(target, source) ==
    [k \in DOMAIN target \cup DOMAIN source |->
        IF k \in DOMAIN source THEN source[k] ELSE target[k]]

\* extend(true, target, source): a nested object of the source is merged
\* into the nested object the target already has under that key
DeepExtend(target, source) ==
    [k \in DOMAIN target \cup DOMAIN source |->
        IF k \notin DOMAIN source THEN target[k]
        ELSE IF source[k].t = "obj" /\ k \in DOMAIN target /\ target[k].t = "obj"
             THEN Obj(Extend(target[k].m, source[k].m))
             ELSE source[k]]

\* an optional schema of the route options
NoSchema == [has |-> FALSE, schema |-> EmptySchema]
Some(schema) == [has |-> TRUE, schema |-> schema]

----------------------------------------------------------------------------
(* registry.ts: createEndpoint *)

Dims == <<"body", "params", "query", "headers">>

mergedQuerySchema_RouteOnly(defaultQuerySchema, query) ==
    IF query.has THEN query.schema ELSE EmptySchema

mergedQuerySchema_DefaultWins(defaultQuerySchema, query) ==
    IF query.has THEN Merge(query.schema, defaultQuerySchema) ELSE defaultQuerySchema

mergedQuerySchema(defaultQuerySchema, query) ==
    IF query.has THEN Merge(defaultQuerySchema, query.schema) ELSE defaultQuerySchema

mergedHeaderSchema(defaultHeaderSchema, headers) ==
    IF headers.has THEN Merge(defaultHeaderSchema, headers.schema) ELSE defaultHeaderSchema

\* a response map: status code -> response object
EmptyResponses == [k \in {} |-> ""]
NoResponses == [has |-> FALSE, map |-> EmptyResponses]
SomeResponses(map) == [has |-> TRUE, map |-> map]

\* the route's responses alone
mergedResponses_RouteOnly(defaultResponses, routeResponses) == routeResponses.map

\* the default entry kept where both define a status
mergedResponses_DefaultWins(defaultResponses, routeResponses) ==
    IF routeResponses.has THEN Extend(routeResponses.map, defaultResponses)
    ELSE defaultResponses

\* { ...defaultResponses } overlaid with the entries of routeResponses
mergedResponses(defaultResponses, routeResponses) ==
    IF routeResponses.has THEN Extend(defaultResponses, routeResponses.map)
    ELSE defaultResponses

\* the request entry of a route: the body and params schemas of the options,
\* the merged query schema and the merged header schema
RouteRequest(dflt, opts) ==
    [query |-> mergedQuerySchema(dflt.query, opts.query),
     headers |-> mergedHeaderSchema(dflt.headers, opts.headers),
     body |-> opts.body,
     params |-> opts.params]

\* the route definition that registerPath pushes on openApiRegistry.definitions
RouteDefinition(method, path, routeRequest, responses) ==
    [request |-> routeRequest, path |-> path, method |-> method, responses |-> responses,
     type |-> "route"]

\* what the returned middleware closes over
ValidationStep(dflt, opts) ==
    [body |-> opts.body,
     params |-> opts.params,
     query |-> mergedQuerySchema(dflt.query, opts.query),
     headers |-> mergedHeaderSchema(dflt.headers, opts.headers),
     \* the defaults in effect when the route was defined, and the route's own schemas
     defaultsThen |-> dflt,
     routeQuery |-> opts.query,
     routeHeaders |-> opts.headers]

\* as Stage, but req.headers is assigned the parsed headers alone
Stage_HeadersReplaced(st, dim, declared, schema) ==
    IF st.thrown \/ ~declared THEN st
    ELSE LET r == Parse(schema, st.raw[dim])
         IN IF r.ok
            THEN [st EXCEPT !.parsed[dim] = r.value,
                            !.raw[dim] = IF dim \in {"body", "headers"} THEN r.value
                                         ELSE IF dim = "query"
                                         THEN DeepExtend(st.raw[dim], r.value)
                                         ELSE Extend(st.raw[dim], r.value),
                            !.log = Append(@, dim)]
            ELSE [st EXCEPT !.thrown = TRUE,
                            !.errors = r.issues,
                            !.log = Append(@, dim)]

\* one schema parse of the try block and its write-back to the raw field;
\* a failed parse throws, which skips everything after it
Stage(st, dim, declared, schema) ==
    IF st.thrown \/ ~declared THEN st
    ELSE LET r == Parse(schema, st.raw[dim])
         IN IF r.ok
            THEN [st EXCEPT !.parsed[dim] = r.value,
                            !.raw[dim] = IF dim = "body" THEN r.value
                                         ELSE IF dim = "query"
                                         THEN DeepExtend(st.raw[dim], r.value)
                                         ELSE Extend(st.raw[dim], r.value),
                            !.log = Append(@, dim)]
            ELSE [st EXCEPT !.thrown = TRUE,
                            !.errors = r.issues,
                            !.log = Append(@, dim)]

\* as Stage, but a failed parse is collected and the later parses still run
Stage_CollectAll(st, dim, declared, schema) ==
    IF ~declared THEN st
    ELSE LET r == Parse(schema, st.raw[dim])
         IN IF r.ok
            THEN [st EXCEPT !.parsed[dim] = r.value,
                            !.raw[dim] = IF dim = "body" THEN r.value
                                         ELSE IF dim = "query"
                                         THEN DeepExtend(st.raw[dim], r.value)
                                         ELSE Extend(st.raw[dim], r.value),
                            !.log = Append(@, dim)]
            ELSE [st EXCEPT !.thrown = TRUE,
                            !.errors = @ \cup r.issues,
                            !.log = Append(@, dim)]

Finish(st) ==
    [parsed |-> st.parsed,
     raw |-> st.raw,
     log |-> st.log,
     \* next() on success, next(err) from the catch block
     nextCalls |-> IF st.thrown THEN <<"error">> ELSE <<"next">>,
     status |-> IF st.thrown THEN 400 ELSE 0,
     errors |-> st.errors]

Start(req) ==
    [thrown |-> FALSE, raw |-> req, parsed |-> req, log |-> <<>>, errors |-> {}]

validationMiddleware_CollectAll(step, req) ==
    LET s1 == Stage_CollectAll(Start(req), "body", step.body.has, step.body.schema)
        s2 == Stage_CollectAll(s1, "params", step.params.has, step.params.schema)
        s3 == Stage_CollectAll(s2, "query", TRUE, step.query)
        s4 == Stage_CollectAll(s3, "headers", TRUE, Partial(step.headers))
    IN Finish(s4)

validationMiddleware_NextOnError(step, req) ==
    LET s1 == Stage(Start(req), "body", step.body.has, step.body.schema)
        s2 == Stage(s1, "params", step.params.has, step.params.schema)
        s3 == Stage(s2, "query", TRUE, step.query)
        s4 == Stage(s3, "headers", TRUE, Partial(step.headers))
    IN [Finish(s4) EXCEPT !.nextCalls = <<"next">>, !.status = 0, !.errors = {}]

\* the middleware that createEndpoint returns, run on the raw fields of a request
validationMiddleware(step, req) ==
    LET s1 == Stage(Start(req), "body", step.body.has, step.body.schema)
        s2 == Stage(s1, "params", step.params.has, step.params.schema)
        s3 == Stage(s2, "query", TRUE, step.query)
        s4 == Stage(s3, "headers", TRUE, Partial(step.headers))
    IN Finish(s4)

----------------------------------------------------------------------------
(* Arguments of the verb methods and of use() *)

StrArg(s) == [kind |-> "string", str |-> s]
ObjArg(opts) == [kind |-> "object", opts |-> opts]
FnArg(id) == [kind |-> "function", id |-> id]
\* an enhanced router: a function carrying _isRouterPlus and _registry
RouterArg(r) == [kind |-> "function", id |-> r]
StepArg(step) == [kind |-> "function", step |-> step, id |-> "validationMiddleware"]

\* a function carrying _isRouterPlus and a _registry object that has neither
\* getRawRegistry nor definitions
Stubs == {"stub"}

IsRouterPlus(arg) == arg.kind = "function" /\ arg.id \in Routers \cup Stubs
IsValidationStep(arg) == arg.kind = "function" /\ arg.id = "validationMiddleware"

Options(path, body, params, query, headers) ==
    [path |-> path, query |-> query, headers |-> headers, body |-> body,
     params |-> params, responses |-> NoResponses, hasPath |-> TRUE]
PathOptions(path) == Options(path, NoSchema, NoSchema, NoSchema, NoSchema)
\* an options object without a path field
PathlessOptions == [PathOptions(<<>>) EXCEPT !.hasPath = FALSE]

\* the values of the top-level keys of an OpenAPI config: a string (openapi),
\* an object (info), a list (servers, security)
NoFields == [k \in {} |-> ""]
CfgText(s) == [text |-> s, fields |-> NoFields, items |-> <<>>]
CfgInfo(f) == [text |-> "", fields |-> f, items |-> <<>>]
CfgList(l) == [text |-> "", fields |-> NoFields, items |-> l]

\* {}
EmptyConfig == [k \in {} |-> CfgText("")]

NoCall ==
    [target |-> "none", op |-> "none", threw |-> FALSE, args |-> <<>>, native |-> <<>>,
     returned |-> "none"]
NoGen ==
    [threw |-> FALSE, owner |-> "none", doc |-> {}, prev |-> {}, streak |-> 0,
     config |-> EmptyConfig, override |-> EmptyConfig, prevConfig |-> EmptyConfig]
NoRequest ==
    [owner |-> "none", handled |-> FALSE, layer |-> 0, rawBefore |-> EmptyObj,
     result |-> EmptyObj, validated |-> FALSE, handlerInvoked |-> FALSE]

----------------------------------------------------------------------------
(* utils.ts: enhanceHttpMethods *)

\* native verb method that runs the user handlers before the validation step
NativeVerb_StepLast(ls, method, nativeArgs) ==
    IF Len(nativeArgs) >= 2 /\ nativeArgs[1].kind = "string"
    THEN Append(ls, [path |-> nativeArgs[1].str, method |-> method,
                     handlers |-> Tail(Tail(nativeArgs)) \o <<nativeArgs[2]>>])
    ELSE ls

\* the native verb method of express: one layer per call with a path and handlers
NativeVerb(ls, method, nativeArgs) ==
    IF Len(nativeArgs) >= 2 /\ nativeArgs[1].kind = "string"
    THEN Append(ls, [path |-> nativeArgs[1].str, method |-> method,
                     handlers |-> Tail(nativeArgs)])
    ELSE ls

\* variants of the enhanced verb method: without the check of opts.path, or
\* treating a plain (path, handler) call as an enhanced one
VerbCall_Variant(o, method, args, checkPath, enhancePlain) ==
    LET case1 == Len(args) > 1 /\ args[1].kind = "object"
        case2 == Len(args) > 2 /\ args[1].kind = "string" /\ args[2].kind = "object"
        plain == enhancePlain /\ ~case1 /\ ~case2 /\ Len(args) > 1 /\ args[1].kind = "string"
        opts == IF case1 THEN args[1].opts
                ELSE IF case2 THEN args[2].opts ELSE PathOptions(args[1].str)
        path == IF case1 THEN opts.path ELSE args[1].str
        rest == IF case1 THEN SubSeq(args, 2, Len(args))
                ELSE IF case2 THEN SubSeq(args, 3, Len(args)) ELSE Tail(args)
        step == ValidationStep(defaults[o], opts)
        responses == mergedResponses(defaults[o].responses, opts.responses)
        nativeArgs == IF case1 \/ case2 \/ plain
                      THEN <<StrArg(path), StepArg(step)>> \o rest
                      ELSE args
    IN /\ SumLen(layers, Owners) < MaxRoutes
       /\ IF checkPath /\ case1 /\ (~opts.hasPath \/ opts.path = <<>>)
          THEN /\ lastCall' = [target |-> o, op |-> method, threw |-> TRUE,
                               args |-> args, native |-> <<>>, returned |-> "none"]
               /\ UNCHANGED <<definitions, layers, openApiConfig>>
          ELSE /\ definitions' =
                    IF case1 \/ case2 \/ plain
                    THEN [definitions EXCEPT
                            ![o] = Append(@, RouteDefinition(method, openApiPath(path),
                                                            RouteRequest(defaults[o], opts),
                                                            responses))]
                    ELSE definitions
               /\ layers' = [layers EXCEPT ![o] = NativeVerb(@, method, nativeArgs)]
               /\ lastCall' = [target |-> o, op |-> method, threw |-> FALSE,
                               args |-> args, native |-> nativeArgs, returned |-> o]
       /\ lastGen' = NoGen
       /\ UNCHANGED <<mountRegistry, defaults, request, inflight, openApiConfig>>

VerbCall_NoPathCheck(o, method, args) == VerbCall_Variant(o, method, args, FALSE, FALSE)

VerbCall_EnhancePlain(o, method, args) == VerbCall_Variant(o, method, args, TRUE, TRUE)

VerbCall(o, method, args) ==
    LET case1 == Len(args) > 1 /\ args[1].kind = "object"
        case2 == Len(args) > 2 /\ args[1].kind = "string" /\ args[2].kind = "object"
        opts == IF case1 THEN args[1].opts ELSE args[2].opts
        path == IF case1 THEN opts.path ELSE args[1].str
        rest == IF case1 THEN SubSeq(args, 2, Len(args)) ELSE SubSeq(args, 3, Len(args))
        step == ValidationStep(defaults[o], opts)
        responses == mergedResponses(defaults[o].responses, opts.responses)
        nativeArgs == IF case1 \/ case2
                      THEN <<StrArg(path), StepArg(step)>> \o rest
                      ELSE args
    IN /\ SumLen(layers, Owners) < MaxRoutes
       /\ IF case1 /\ (~opts.hasPath \/ opts.path = <<>>)
          THEN \* throw new Error('Path is required ...')
               /\ lastCall' = [target |-> o, op |-> method, threw |-> TRUE,
                               args |-> args, native |-> <<>>, returned |-> "none"]
               /\ UNCHANGED <<definitions, layers, openApiConfig>>
          ELSE /\ definitions' =
                    IF case1 \/ case2
                    THEN [definitions EXCEPT
                            ![o] = Append(@, RouteDefinition(method, openApiPath(path),
                                                            RouteRequest(defaults[o], opts),
                                                            responses))]
                    ELSE definitions
               /\ layers' = [layers EXCEPT ![o] = NativeVerb(@, method, nativeArgs)]
               /\ lastCall' = [target |-> o, op |-> method, threw |-> FALSE,
                               args |-> args, native |-> nativeArgs, returned |-> o]
       /\ lastGen' = NoGen
       /\ UNCHANGED <<mountRegistry, defaults, request, inflight, openApiConfig>>

----------------------------------------------------------------------------
(* express-plus.ts, router-plus.ts: use() *)

\* an enhanced router is recorded wherever it stands behind the first argument
MountRecords_AnyPosition(args) ==
    LET later == {i \in 2..Len(args) : IsRouterPlus(args[i])}
    IN (IF later # {}
        THEN <<[path |-> normalizeMountPath(IF args[1].kind = "string" THEN args[1].str
                                            ELSE Slash),
                registry |-> args[CHOOSE i \in later : \A j \in later : i <= j].id]>>
        ELSE <<>>)
       \o
       (IF Len(args) = 1 /\ IsRouterPlus(args[1])
        THEN <<[path |-> Slash, registry |-> args[1].id]>>
        ELSE <<>>)

\* the Mount Records one use() call pushes
MountRecords(args) ==
    (IF Len(args) >= 2 /\ IsRouterPlus(args[2])
     THEN <<[path |-> normalizeMountPath(IF args[1].kind = "string" THEN args[1].str
                                         ELSE Slash),
             registry |-> args[2].id]>>
     ELSE <<>>)
    \o
    (IF Len(args) = 1 /\ IsRouterPlus(args[1])
     THEN <<[path |-> Slash, registry |-> args[1].id]>>
     ELSE <<>>)

\* the superseded revision: one list shared by every application and router
MountListAfterUse_Global(owner, target, list, records) == list \o records

\* the mount list of `owner` after use() was called on `target`
MountListAfterUse(owner, target, list, records) ==
    IF owner = target THEN list \o records ELSE list

Use(o, args) ==
    LET records == MountRecords(args)
    IN /\ SumLen(mountRegistry, Owners) + Len(records) <= MaxMounts
       /\ mountRegistry' =
            [x \in Owners |-> MountListAfterUse(x, o, mountRegistry[x], records)]
       /\ lastCall' = [target |-> o, op |-> "use", threw |-> FALSE,
                       args |-> args, native |-> args, returned |-> o]
       /\ lastGen' = NoGen
       /\ UNCHANGED <<definitions, defaults, layers, request, inflight, openApiConfig>>

----------------------------------------------------------------------------
(* registry.ts: the OpenAPI config object, setInfo, addServer *)

\* { openapi: '3.0.0', info: { title: 'API Documentation', version: '1.0.0' } }
DefaultConfig ==
    [k \in {"openapi", "info"} |->
        IF k = "openapi" THEN CfgText("3.0.0")
        ELSE CfgInfo([title |-> "API Documentation", version |-> "1.0.0"])]

\* every registry is created with options of its own: one config object each
InitialConfig ==
    [ref |-> [o \in Owners |-> o], obj |-> [id \in Owners |-> DefaultConfig]]

\* the config object the registry of o holds
ConfigOf(o) == openApiConfig.obj[openApiConfig.ref[o]]

\* { ...config, ...openApiConfig }: the persisted keys over the override's
RenderedConfig_PersistedWins(config, override) == Extend(override, config)

\* { ...openApiConfig, ...config }
RenderedConfig(config, override) == Extend(config, override)

\* { ...openApiConfig.info, ...info }
InfoAfterSet(old, info) == Extend(old, info)

\* openApiConfig.servers.unshift(server)
ServersAfterAdd_Front(config, server) ==
    IF "servers" \in DOMAIN config THEN <<server>> \o config["servers"].items
    ELSE <<server>>

\* if (!openApiConfig.servers) openApiConfig.servers = []; servers.push(server)
ServersAfterAdd(config, server) ==
    IF "servers" \in DOMAIN config THEN Append(config["servers"].items, server)
    ELSE <<server>>

SetInfo(o, info) ==
    LET id == openApiConfig.ref[o]
        config == openApiConfig.obj[id]
        after == [config EXCEPT !["info"] = CfgInfo(InfoAfterSet(@.fields, info))]
    IN /\ openApiConfig' = [openApiConfig EXCEPT !.obj[id] = after]
       /\ lastCall' = [target |-> o, op |-> "setInfo", threw |-> FALSE,
                       args |-> <<ObjArg(info)>>, native |-> <<>>, returned |-> o]
       /\ lastGen' = NoGen
       /\ UNCHANGED <<definitions, mountRegistry, defaults, layers, request, inflight>>

AddServer(o, server) ==
    LET id == openApiConfig.ref[o]
        config == openApiConfig.obj[id]
        servers == ServersAfterAdd(config, server)
        after == Extend(config, [k \in {"servers"} |-> CfgList(servers)])
    IN /\ Len(servers) <= MaxServers
       /\ openApiConfig' = [openApiConfig EXCEPT !.obj[id] = after]
       /\ lastCall' = [target |-> o, op |-> "addServer", threw |-> FALSE,
                       args |-> <<ObjArg(server)>>, native |-> <<>>, returned |-> o]
       /\ lastGen' = NoGen
       /\ UNCHANGED <<definitions, mountRegistry, defaults, layers, request, inflight>>

----------------------------------------------------------------------------
(* registry.ts, express-plus.ts: generateOpenAPIDocument *)

FullPath_NoPrefix(path, routePath) ==
    LET stripped == IF StartsWith(routePath, "/") THEN Substring1(routePath) ELSE routePath
    IN Slash \o stripped

\* `${path}/${routePath}` without the removal of the leading slash
FullPath_NoStrip(path, routePath) ==
    IF path = Slash THEN Slash \o routePath ELSE path \o Slash \o routePath

FullPath(path, routePath) ==
    LET stripped == IF StartsWith(routePath, "/") THEN Substring1(routePath) ELSE routePath
    IN IF path = Slash THEN Slash \o stripped ELSE path \o Slash \o stripped

\* every definition of the mounted registry copied, whatever its type
RECURSIVE ReRegistered_All(_, _, _)
ReRegistered_All(defs, path, i) ==
    IF i > Len(defs) THEN <<>>
    ELSE (IF defs[i].type = "route"
          THEN <<[defs[i] EXCEPT !.path = FullPath(path, defs[i].path)]>>
          ELSE <<defs[i]>>)
         \o ReRegistered_All(defs, path, i + 1)

\* the definitions of one mounted registry as they are re-registered in the base
RECURSIVE ReRegistered(_, _, _)
ReRegistered(defs, path, i) ==
    IF i > Len(defs) THEN <<>>
    ELSE (IF defs[i].type = "route"
          THEN <<[defs[i] EXCEPT !.path = FullPath(path, defs[i].path)]>>
          ELSE <<>>)
         \o ReRegistered(defs, path, i + 1)

\* the guards of the walk: the registry reference, its raw registry and the
\* definitions of that are all there
HasDefinitions(allDefs, registry) == registry \in DOMAIN allDefs

\* without the guards, definitions.forEach on a registry that has none raises
WalkRaises_Unguarded(allDefs, mounts) ==
    \E i \in 1..Len(mounts) : ~HasDefinitions(allDefs, mounts[i].registry)

\* a guard that fails returns from the callback of that Mount Record; the
\* walk goes on with the next one and never raises
WalkRaises(allDefs, mounts) == FALSE

RECURSIVE MountedRoutes(_, _, _)
MountedRoutes(allDefs, mounts, i) ==
    IF i > Len(mounts) THEN <<>>
    ELSE (IF HasDefinitions(allDefs, mounts[i].registry)
          THEN ReRegistered(allDefs[mounts[i].registry], mounts[i].path, 1)
          ELSE <<>>)
         \o MountedRoutes(allDefs, mounts, i + 1)

\* the paths object of the rendered document: one entry per (path, method)
Paths(defs) ==
    {<<defs[i].path, defs[i].method>> : i \in {j \in 1..Len(defs) : defs[j].type = "route"}}

\* as DefinitionsAfterGenerate, but the child's route is rewritten in place
DefinitionsAfterGenerate_InPlace(x, o, allDefs, mounts) ==
    IF o \in Apps /\ x = o THEN allDefs[x] \o MountedRoutes(allDefs, mounts[o], 1)
    ELSE IF o \in Apps /\ \E i \in 1..Len(mounts[o]) : mounts[o][i].registry = x
    THEN LET p == (CHOOSE i \in 1..Len(mounts[o]) : mounts[o][i].registry = x)
         IN ReRegistered(allDefs[x], mounts[o][p].path, 1)
    ELSE allDefs[x]

\* as DefinitionsAfterGenerate, but the mounted routes are composed once: when
\* the base already holds a route of a mounted router, the walk is skipped
DefinitionsAfterGenerate_Once(x, o, allDefs, mounts) ==
    LET routes == MountedRoutes(allDefs, mounts[o], 1)
        composed == \E j \in 1..Len(allDefs[o]), k \in 1..Len(routes) :
                        allDefs[o][j] = routes[k]
    IN IF o \in Apps /\ x = o /\ ~composed THEN allDefs[x] \o routes ELSE allDefs[x]

\* as DefinitionsAfterGenerate, but the combined route is also pushed on the
\* store of the router it came from
DefinitionsAfterGenerate_IntoChild(x, o, allDefs, mounts) ==
    IF o \in Apps /\ x = o THEN allDefs[x] \o MountedRoutes(allDefs, mounts[o], 1)
    ELSE IF o \in Apps
    THEN allDefs[x] \o MountedRoutes(allDefs,
                          SelectSeq(mounts[o], LAMBDA rec : rec.registry = x), 1)
    ELSE allDefs[x]

\* the definitions of registry x after generateOpenAPIDocument ran on o: an
\* application re-registers the routes of its mounted routers in its own
\* store; a router's registry renders its own store as it is
DefinitionsAfterGenerate(x, o, allDefs, mounts) ==
    IF o \in Apps /\ x = o
    THEN allDefs[x] \o MountedRoutes(allDefs, mounts[o], 1)
    ELSE allDefs[x]

\* generateOpenAPIDocument(config) on the registry of o
GenerateWith(o, override) ==
    LET after == [x \in Owners |->
                    DefinitionsAfterGenerate(x, o, definitions, mountRegistry)]
        again == lastGen.owner = o
        raised == o \in Apps /\ WalkRaises(definitions, mountRegistry[o])
    IN /\ again => lastGen.streak < MaxGen
       /\ Len(after[o]) <= MaxStore
       /\ definitions' = IF raised THEN definitions ELSE after
       /\ lastGen' = [threw |-> raised,
                      owner |-> o,
                      doc |-> IF raised THEN {} ELSE Paths(after[o]),
                      prev |-> IF again THEN lastGen.doc ELSE {},
                      streak |-> IF again THEN lastGen.streak + 1 ELSE 1,
                      config |-> IF raised THEN EmptyConfig
                                 ELSE RenderedConfig(ConfigOf(o), override),
                      override |-> override,
                      prevConfig |-> IF again THEN lastGen.config ELSE EmptyConfig]
       /\ UNCHANGED <<mountRegistry, defaults, layers, lastCall, request, inflight, openApiConfig>>

\* generateOpenAPIDocument(): the config parameter defaults to {}
Generate(o) == GenerateWith(o, EmptyConfig)

----------------------------------------------------------------------------
(* registry.ts: setDefaultQuerySchema, setDefaultHeaderSchema,             *)
(* setDefaultResponses                                                      *)

\* as SetDefaultQuerySchema, but the routes already defined are validated
\* and documented with the new default too
SetDefaultQuerySchema_Retroactive(o, schema) ==
    /\ defaults' = [defaults EXCEPT ![o].query = schema]
    /\ layers' = [layers EXCEPT ![o] =
            [i \in 1..Len(layers[o]) |->
                IF IsValidationStep(layers[o][i].handlers[1])
                THEN [layers[o][i] EXCEPT !.handlers[1].step.query =
                        mergedQuerySchema(schema, layers[o][i].handlers[1].step.routeQuery)]
                ELSE layers[o][i]]]
    /\ definitions' = [definitions EXCEPT ![o] =
            [i \in 1..Len(definitions[o]) |->
                IF definitions[o][i].type = "route"
                THEN [definitions[o][i] EXCEPT !.request.query = schema]
                ELSE definitions[o][i]]]
    /\ lastGen' = NoGen
    /\ UNCHANGED <<mountRegistry, lastCall, request, inflight, openApiConfig>>

SetDefaultQuerySchema(o, schema) ==
    /\ defaults' = [defaults EXCEPT ![o].query = schema]
    /\ lastGen' = NoGen
    /\ UNCHANGED <<definitions, mountRegistry, layers, lastCall, request, inflight, openApiConfig>>

SetDefaultHeaderSchema(o, schema) ==
    /\ defaults' = [defaults EXCEPT ![o].headers = schema]
    /\ lastGen' = NoGen
    /\ UNCHANGED <<definitions, mountRegistry, layers, lastCall, request, inflight, openApiConfig>>

SetDefaultResponses(o, responses) ==
    /\ defaults' = [defaults EXCEPT ![o].responses = responses]
    /\ lastGen' = NoGen
    /\ UNCHANGED <<definitions, mountRegistry, layers, lastCall, request, inflight, openApiConfig>>

----------------------------------------------------------------------------
(* registry.ts: registerSecurityScheme *)

\* the definition that registerComponent pushes on openApiRegistry.definitions
ComponentDefinition(componentType, name) ==
    [type |-> "component", componentType |-> componentType, name |-> name]

RegisterSecurityScheme(o, name) ==
    /\ Len(definitions[o]) < MaxStore
    /\ definitions' =
         [definitions EXCEPT ![o] = Append(@, ComponentDefinition("securitySchemes", name))]
    /\ lastGen' = NoGen
    /\ UNCHANGED <<mountRegistry, defaults, layers, lastCall, request, inflight, openApiConfig>>

\* the securitySchemes of the rendered document: one entry per registered name
SecuritySchemes(defs) ==
    {defs[i].name : i \in {j \in 1..Len(defs) : defs[j].type = "component"}}

----------------------------------------------------------------------------
(* A request dispatched by express to layer i of o: the handlers run in     *)
(* order, each next() passing control to the following one.  The request    *)
(* object, with its parsed namespace, is gone once the exchange is over.    *)

HandleRequest(o, i, raw) ==
    LET first == layers[o][i].handlers[1]
        validated == IsValidationStep(first)
        res == validationMiddleware(first.step, raw)
    IN /\ i \in 1..Len(layers[o])
       /\ ~request.handled
       /\ request' =
            [handled |-> TRUE, owner |-> o, layer |-> i, rawBefore |-> raw,
             validated |-> validated,
             result |-> IF validated THEN res ELSE EmptyObj,
             \* the user handler runs when no validation step precedes it, or
             \* when the step called next() without an error
             handlerInvoked |-> IF validated THEN res.nextCalls = <<"next">> ELSE TRUE]
       /\ UNCHANGED <<definitions, mountRegistry, defaults, layers, lastGen, lastCall, inflight, openApiConfig>>

\* a request slot with no request in it
NoFlight ==
    [st |-> EmptyObj, raw |-> EmptyObj, owner |-> "none", layer |-> 0,
     active |-> FALSE, pc |-> 0]

\* a request enters the validation step of layer i of o
Arrive(id, o, i, raw) ==
    /\ ~inflight[id].active
    /\ i \in 1..Len(layers[o])
    /\ IsValidationStep(layers[o][i].handlers[1])
    /\ inflight' = [inflight EXCEPT ![id] =
            [st |-> Start(raw), raw |-> raw, owner |-> o, layer |-> i,
             active |-> TRUE, pc |-> 1]]
    /\ UNCHANGED <<definitions, mountRegistry, defaults, layers, lastGen, lastCall, request, openApiConfig>>

\* as Advance, but the parsed namespace is one object shared by the requests
\* in the step
Advance_SharedParsed(id) ==
    LET r == inflight[id]
        step == layers[r.owner][r.layer].handlers[1].step
        others == {x \in 1..MaxInflight : x # id /\ inflight[x].active}
        shared == IF others = {} THEN r.st
                  ELSE [r.st EXCEPT !.parsed =
                            inflight[CHOOSE x \in others : TRUE].st.parsed]
        declared == CASE r.pc = 1 -> step.body.has
                      [] r.pc = 2 -> step.params.has
                      [] OTHER -> TRUE
        schema == CASE r.pc = 1 -> step.body.schema
                    [] r.pc = 2 -> step.params.schema
                    [] r.pc = 3 -> step.query
                    [] OTHER -> Partial(step.headers)
        st == Stage(shared, Dims[r.pc], declared, schema)
    IN /\ r.active
       /\ r.pc \in 1..Len(Dims)
       /\ inflight' = [inflight EXCEPT ![id].st = st,
                                       ![id].pc = IF st.thrown THEN Len(Dims) + 1
                                                  ELSE r.pc + 1]
       /\ UNCHANGED <<definitions, mountRegistry, defaults, layers, lastGen, lastCall, request, openApiConfig>>

\* the next parse statement of the validation step runs for request id; a
\* thrown error leaves the try block
Advance(id) ==
    LET r == inflight[id]
        step == layers[r.owner][r.layer].handlers[1].step
        declared == CASE r.pc = 1 -> step.body.has
                      [] r.pc = 2 -> step.params.has
                      [] OTHER -> TRUE
        schema == CASE r.pc = 1 -> step.body.schema
                    [] r.pc = 2 -> step.params.schema
                    [] r.pc = 3 -> step.query
                    [] OTHER -> Partial(step.headers)
        st == Stage(r.st, Dims[r.pc], declared, schema)
    IN /\ r.active
       /\ r.pc \in 1..Len(Dims)
       /\ inflight' = [inflight EXCEPT ![id].st = st,
                                       ![id].pc = IF st.thrown THEN Len(Dims) + 1
                                                  ELSE r.pc + 1]
       /\ UNCHANGED <<definitions, mountRegistry, defaults, layers, lastGen, lastCall, request, openApiConfig>>

\* the step called next() or next(err); the exchange ends
Depart(id) ==
    /\ inflight[id].active
    /\ inflight[id].pc = Len(Dims) + 1
    /\ inflight' = [inflight EXCEPT ![id] = NoFlight]
    /\ UNCHANGED <<definitions, mountRegistry, defaults, layers, lastGen, lastCall, request, openApiConfig>>

EndRequest ==
    /\ request.handled
    /\ request' = NoRequest
    /\ UNCHANGED <<definitions, mountRegistry, defaults, layers, lastGen, lastCall, inflight, openApiConfig>>

----------------------------------------------------------------------------
(* Initial state and the inputs of the composition scenario *)

Init ==
    /\ definitions = [o \in Owners |-> <<>>]
    /\ mountRegistry = [o \in Owners |-> <<>>]
    /\ defaults = [o \in Owners |->
                    [query |-> EmptySchema, headers |-> EmptySchema,
                     responses |-> EmptyResponses]]
    /\ layers = [o \in Owners |-> <<>>]
    /\ lastGen = NoGen
    /\ lastCall = NoCall
    /\ request = NoRequest
    /\ inflight = [id \in 1..MaxInflight |-> NoFlight]
    /\ openApiConfig = InitialConfig


PathList == <<"/", "l", "i", "s", "t">>
PathX == <<"/", "x">>
\* the routes each application or router defines, as <<method, path>>
Routes(o) ==
    CASE o = "app" -> {<<"get", PathList>>}
      [] o = "rA" -> {<<"get", PathList>>, <<"post", PathList>>}
      [] o = "rB" -> {<<"get", PathX>>}

MountApiUsers == <<"/", "a", "p", "i", "/", "u", "s", "e", "r", "s">>
MountApi == <<"/", "a", "p", "i">>
MountA == <<"/", "a">>
\* the mounts each application or router performs, as <<path, router>>
Mounts(o) ==
    CASE o = "app" -> {<<MountApiUsers, "rA">>, <<MountApi, "rA">>, <<MountApi, "rB">>}
      [] o = "rA" -> {<<MountA, "rB">>}
      [] o = "rB" -> {<<MountA, "rA">>}

DefineRoute ==
    \E o \in Owners : \E r \in Routes(o) :
        VerbCall(o, r[1], <<ObjArg(PathOptions(r[2])), FnArg("h1")>>)

MountAt ==
    \E o \in Owners : \E m \in Mounts(o) :
        Use(o, <<StrArg(m[1]), RouterArg(m[2])>>)

MountAtRoot ==
    \E o \in Apps : \E r \in Routers : Use(o, <<RouterArg(r)>>)

GenerateDocument == \E o \in Owners : Generate(o)

Next == DefineRoute \/ MountAt \/ MountAtRoot \/ GenerateDocument

Spec == Init /\ [][Next]_vars

----------------------------------------------------------------------------
(* Composition: what a generated document is expected to contain *)

RouteIndices(defs) == {i \in 1..Len(defs) : defs[i].type = "route"}

\* "mountPath + routePath"; a router mounted at the root keeps its route paths
Join(mountPath, routePath) ==
    IF mountPath = Slash THEN routePath ELSE mountPath \o routePath

\* the (path, method) pairs of the routes defined on o itself through its verb methods
OwnPairs(o) ==
    {<<openApiPath(layers[o][i].path), layers[o][i].method>> :
        i \in {j \in 1..Len(layers[o]) : IsValidationStep(layers[o][j].handlers[1])}}

\* the (path, method) pairs of the routes of the routers mounted directly on o
MountedPairs(o) ==
    UNION {{<<Join(mountRegistry[o][i].path, definitions[mountRegistry[o][i].registry][k].path),
              definitions[mountRegistry[o][i].registry][k].method>> :
                k \in RouteIndices(definitions[mountRegistry[o][i].registry])} :
           i \in 1..Len(mountRegistry[o])}

\* the document generateOpenAPIDocument would return for x in the given state
DocumentOf(x, allDefs, mounts) ==
    Paths(DefinitionsAfterGenerate(x, x, allDefs, mounts))

\* a is an ancestor of t: t is reachable from a through at most n mounts
RECURSIVE Reaches(_, _, _, _)
Reaches(a, t, mounts, n) ==
    /\ n > 0
    /\ \E i \in 1..Len(mounts[a]) :
          \/ mounts[a][i].registry = t
          \/ Reaches(mounts[a][i].registry, t, mounts, n - 1)

IsAncestor(a, t, mounts) == Reaches(a, t, mounts, Cardinality(Owners))

----------------------------------------------------------------------------
(* C3 *)

\* C3 as stated: in the document an application generates, every route of a
\* directly mounted router appears under mountPath + routePath and never
\* under its unprefixed path.
C3_MountedUnderPrefixNeverUnprefixed ==
    \A o \in Apps :
        lastGen.owner = o =>
            \A i \in 1..Len(mountRegistry[o]) :
                LET m == mountRegistry[o][i]
                IN \A k \in RouteIndices(definitions[m.registry]) :
                    LET d == definitions[m.registry][k]
                    IN /\ <<m.path \o d.path, d.method>> \in lastGen.doc
                       /\ <<d.path, d.method>> \notin lastGen.doc

\* C3, amended: every route of a router mounted directly at a path other than
\* "/" appears under mountPath + routePath, a router mounted at "/" contributes
\* its routes under their own paths, and the document holds nothing but the
\* application's own routes and these mounted routes (so an unprefixed path
\* appears only when the application or a root mount provides it).
C3_MountedRoutesUnderCombinedPath ==
    \A o \in Apps :
        lastGen.owner = o =>
            /\ \A i \in 1..Len(mountRegistry[o]) :
                LET m == mountRegistry[o][i]
                IN \A k \in RouteIndices(definitions[m.registry]) :
                    LET d == definitions[m.registry][k]
                    IN IF m.path = Slash
                       THEN <<d.path, d.method>> \in lastGen.doc
                       ELSE <<m.path \o d.path, d.method>> \in lastGen.doc
            /\ lastGen.doc \subseteq OwnPairs(o) \cup MountedPairs(o)

\* the end-to-end scenario: GET /list on a router mounted at /api/users gives
\* exactly the path /api/users/list with a get entry
C3_Witness ==
    /\ lastGen.owner = "app"
    /\ mountRegistry["app"] = <<[path |-> MountApiUsers, registry |-> "rA"]>>
    /\ Len(definitions["rA"]) = 1
    /\ definitions["rA"][1].method = "get"
    /\ definitions["rA"][1].path = PathList
    /\ layers["app"] = <<>>
    /\ lastGen.doc = {<<MountApiUsers \o PathList, "get">>}

----------------------------------------------------------------------------
(* C4 *)

\* C4: a route of a router B mounted under a router A that is mounted under
\* the application appears in the application's document under the mount
\* prefixes concatenated outermost to innermost.
C4_NestedRoutesInDocument ==
    lastGen.owner = "app" =>
        \A i \in 1..Len(mountRegistry["app"]) :
            LET outer == mountRegistry["app"][i]
            IN \A j \in 1..Len(mountRegistry[outer.registry]) :
                LET inner == mountRegistry[outer.registry][j]
                IN \A k \in RouteIndices(definitions[inner.registry]) :
                    LET d == definitions[inner.registry][k]
                    IN <<Join(outer.path, Join(inner.path, d.path)), d.method>>
                            \in lastGen.doc

----------------------------------------------------------------------------
(* C5 *)

\* C5: a second generateOpenAPIDocument call with no change since the first
\* returns a document with the same set of (path, method) entries.
C5_SecondDocumentEqual ==
    lastGen.streak >= 2 => lastGen.doc = lastGen.prev

C5_Witness ==
    /\ lastGen.owner = "app"
    /\ lastGen.streak >= 2
    /\ Len(mountRegistry["app"]) >= 1
    /\ MountedPairs("app") # {}
    /\ lastGen.doc = lastGen.prev

----------------------------------------------------------------------------
(* C6 *)

\* C6: generating the document again, with nothing changed since the last
\* generation, does not grow the number of definitions in the application's
\* base store.
C6_RepeatedGenerationNoGrowth ==
    [][\A o \in Apps :
         (lastGen.owner = o /\ lastGen'.owner = o /\ lastGen'.streak = lastGen.streak + 1)
            => Len(definitions'[o]) = Len(definitions[o])]_vars

----------------------------------------------------------------------------
(* C7 *)

\* C7: a step that changes a mount list is a use() call, changes the list of
\* the application or router it was called on and no other, and leaves the
\* document of every other owner that is not an ancestor as it was; a
\* generated document holds only routes of its own tree.
C7_MountListsInstanceScoped ==
    /\ [][mountRegistry' # mountRegistry =>
            /\ lastCall'.op = "use"
            /\ \A x \in Owners \ {lastCall'.target} :
                 /\ mountRegistry'[x] = mountRegistry[x]
                 /\ ~IsAncestor(x, lastCall'.target, mountRegistry') =>
                        DocumentOf(x, definitions', mountRegistry')
                            = DocumentOf(x, definitions, mountRegistry)]_vars
    /\ [](\A o \in Owners :
            lastGen.owner = o => lastGen.doc \subseteq OwnPairs(o) \cup MountedPairs(o))

\* two trees side by side: the application mounts rA, and rB has just mounted rA too
C7_Witness ==
    /\ lastCall.op = "use"
    /\ lastCall.target = "rB"
    /\ Len(mountRegistry["rB"]) = 1
    /\ Len(mountRegistry["app"]) = 1
    /\ mountRegistry["app"][1].registry = "rA"
    /\ definitions["rA"] # <<>>

----------------------------------------------------------------------------
(* Mount paths: use() called with arbitrary path strings *)

MountAlphabet == {"/", "a"}
MountStrings == StringsUpTo(MountAlphabet, MaxMountLen)

MountString ==
    \E o \in Owners : \E r \in Routers \ {o}, s \in MountStrings :
        Use(o, <<StrArg(s), RouterArg(r)>>)

MountBare ==
    \E o \in Owners : \E r \in Routers \ {o} : Use(o, <<RouterArg(r)>>)

UseMiddleware ==
    \E o \in Owners :
        \/ Use(o, <<FnArg("mw")>>)
        \/ Use(o, <<StrArg(MountA), FnArg("mw")>>)

UseRouterLater ==
    \E o \in Owners : \E r \in Routers \ {o} :
        Use(o, <<StrArg(MountA), FnArg("mw"), RouterArg(r)>>)

NextMount == MountString \/ MountBare \/ UseMiddleware \/ UseRouterLater

SpecMount == Init /\ [][NextMount]_vars

----------------------------------------------------------------------------
(* C8 *)

\* C8: every stored Mount Record has a path that starts with "/" and does
\* not end with "/" unless it is exactly "/".
C8_MountPathsNormalized ==
    \A o \in Owners :
        \A i \in 1..Len(mountRegistry[o]) :
            LET p == mountRegistry[o][i].path
            IN /\ StartsWith(p, "/")
               /\ EndsWith(p, "/") => p = Slash

----------------------------------------------------------------------------
(* Validation: routes with schemas on one application, and requests *)

PathUsers == <<"/", "u", "s", "e", "r", "s">>

\* z.object({ format: z.enum(['json', 'xml']).default('json') })
FormatDefault == [k \in {"format"} |-> WithDefault(EnumField({"json", "xml"}), Str("json"))]
\* a route's own format field, without a default
FormatRoute == [k \in {"format"} |-> EnumField({"csv", "json"})]
\* z.object({ limit: z.coerce.number().min(1).max(100).default(10) })
LimitQuery == [k \in {"limit"} |-> WithDefault(NumberField(1, 100), Num(10))]
BodySchema == [k \in {"name"} |-> EnumField({"bob"})]
ParamsSchema == [k \in {"id"} |-> EnumField({"u1"})]
HeaderDefault == [k \in {"x-request-id"} |-> EnumField({"r1"})]
HeaderRoute ==
    [k \in {"x-request-id", "x-api-key"} |->
        IF k = "x-api-key" THEN EnumField({"k1"}) ELSE EnumField({"r2"})]

DefaultQuerySchemas == {EmptySchema, FormatDefault}
DefaultHeaderSchemas == {EmptySchema, HeaderDefault}

RouteOptions ==
    {PathOptions(PathUsers),
     Options(PathUsers, NoSchema, NoSchema, Some(FormatRoute), NoSchema),
     Options(PathUsers, Some(BodySchema), Some(ParamsSchema), Some(LimitQuery),
             Some(HeaderRoute))}

RawBodies == {[k \in {"name"} |-> Str("bob")], EmptyObj}
RawParams == {[k \in {"id"} |-> Str("u1")], [k \in {"id"} |-> Str("nope")]}
RawQueries ==
    {EmptyObj,
     [k \in {"format"} |-> Str("xml")],
     [k \in {"format", "limit"} |-> IF k = "format" THEN Str("csv") ELSE Str("7")],
     [k \in {"limit", "debug"} |-> IF k = "limit" THEN Str("200") ELSE Str("1")]}
RawHeaders ==
    {[k \in {"host"} |-> Str("h")],
     [k \in {"host", "x-request-id"} |-> IF k = "host" THEN Str("h") ELSE Str("r1")],
     [k \in {"x-request-id", "x-api-key"} |->
        IF k = "x-api-key" THEN Str("k1") ELSE Str("r2")]}

RawRequests ==
    [body : RawBodies, params : RawParams, query : RawQueries, headers : RawHeaders]

ConfigureQueryDefault ==
    \E s \in DefaultQuerySchemas : SetDefaultQuerySchema("app", s)

ConfigureHeaderDefault ==
    \E s \in DefaultHeaderSchemas : SetDefaultHeaderSchema("app", s)

DefineValidatedRoute ==
    \E opts \in RouteOptions : VerbCall("app", "post", <<ObjArg(opts), FnArg("h1")>>)

Serve ==
    \E i \in 1..Len(layers["app"]), raw \in RawRequests : HandleRequest("app", i, raw)

NextValidate ==
    \/ ConfigureQueryDefault
    \/ ConfigureHeaderDefault
    \/ DefineValidatedRoute
    \/ Serve
    \/ EndRequest

SpecValidate == Init /\ [][NextValidate]_vars

----------------------------------------------------------------------------
(* What a schema accepts, stated field by field *)

Accepts(def, input, k) ==
    IF k \in DOMAIN input
    THEN IF def.kind = "enum"
         THEN input[k].t = "str" /\ input[k].s \in def.allowed
         ELSE IF def.kind = "object"
         THEN input[k].t = "obj"
         ELSE /\ IsNumeric(input[k])
              /\ def.min <= ToNumber(input[k])
              /\ ToNumber(input[k]) <= def.max
    ELSE def.optional \/ def.hasDefault

Satisfies(schema, input) == \A k \in DOMAIN schema : Accepts(schema[k], input, k)

\* the coerced values of an accepted input: supplied fields coerced to their
\* type, omitted fields filled from their default, undeclared fields dropped
Coerced(schema, input) ==
    [k \in {f \in DOMAIN schema :
              f \in DOMAIN input \/ (schema[f].hasDefault /\ ~schema[f].optional)} |->
        IF k \in DOMAIN input
        THEN IF schema[k].kind = "number" THEN Num(ToNumber(input[k]))
             ELSE IF schema[k].kind = "object"
             THEN Obj([j \in DOMAIN input[k].m \cap schema[k].allowed |-> input[k].m[j]])
             ELSE input[k]
        ELSE schema[k].dflt]

\* the validation step the handled request went through
CurrentStep == layers[request.owner][request.layer].handlers[1].step

Declared(step, i) ==
    CASE i = 1 -> step.body.has
      [] i = 2 -> step.params.has
      [] OTHER -> TRUE

SchemaOfDim(step, i) ==
    CASE i = 1 -> step.body.schema
      [] i = 2 -> step.params.schema
      [] i = 3 -> step.query
      [] OTHER -> Partial(step.headers)

Violates(step, raw, i) ==
    Declared(step, i) /\ ~Satisfies(SchemaOfDim(step, i), raw[Dims[i]])

\* the dimensions of S in validation order
InOrder(S) ==
    LET f[i \in 0..Len(Dims)] ==
            IF i = 0 THEN <<>>
            ELSE IF i \in S THEN Append(f[i - 1], Dims[i]) ELSE f[i - 1]
    IN f[Len(Dims)]

Reached(dim) == \E i \in 1..Len(request.result.log) : request.result.log[i] = dim

----------------------------------------------------------------------------
(* C1 *)

\* C1: the dimensions are parsed in the order body, params, query, headers;
\* the parses that ran are the declared dimensions up to and including the
\* first one that fails, and the error payload holds the issues of that
\* dimension only.
C1_FirstFailingDimensionAborts ==
    (request.handled /\ request.validated) =>
        LET step == CurrentStep
            raw == request.rawBefore
            failing == {i \in 1..Len(Dims) : Violates(step, raw, i)}
            parsedDims == {i \in 1..Len(Dims) :
                              Declared(step, i) /\ \A j \in failing : i <= j}
        IN /\ request.result.log = InOrder(parsedDims)
           /\ failing # {} =>
                LET first == CHOOSE i \in failing : \A j \in failing : i <= j
                IN request.result.errors
                     = Parse(SchemaOfDim(step, first), raw[Dims[first]]).issues

\* a request whose body and query both violate their schemas: only the body ran
C1_Witness ==
    /\ request.handled
    /\ request.validated
    /\ Violates(CurrentStep, request.rawBefore, 1)
    /\ Violates(CurrentStep, request.rawBefore, 3)
    /\ request.result.log = <<"body">>
    /\ request.result.errors = {[path |-> "name", code |-> "invalid_type"]}

----------------------------------------------------------------------------
(* C2 *)

\* C2: a request that satisfies every declared or merged schema reaches the
\* user handler with parsed.query equal to the coerced query values; a request
\* that violates one of them goes to the error path with status 400 and a
\* non-empty errors payload, and the user handler is not invoked.
C2_ValidOrFourHundred ==
    (request.handled /\ request.validated) =>
        LET step == CurrentStep
            raw == request.rawBefore
        IN IF \A i \in 1..Len(Dims) : ~Violates(step, raw, i)
           THEN /\ request.handlerInvoked
                /\ request.result.nextCalls = <<"next">>
                /\ request.result.parsed.query = Coerced(step.query, raw.query)
           ELSE /\ ~request.handlerInvoked
                /\ request.result.nextCalls = <<"error">>
                /\ request.result.status = 400
                /\ request.result.errors # {}

\* limit=7 arrives as a string and reaches the handler as the number 7
C2_Witness ==
    /\ request.handled
    /\ request.validated
    /\ request.handlerInvoked
    /\ "limit" \in DOMAIN request.rawBefore.query
    /\ request.rawBefore.query["limit"] = Str("7")
    /\ "limit" \in DOMAIN request.result.parsed.query
    /\ request.result.parsed.query["limit"] = Num(7)

----------------------------------------------------------------------------
(* C9 *)

\* C9: a route without a query schema of its own is validated against the
\* default query schema of its registry (the one in effect when the route was
\* defined) and nothing else; with the default {format: enum(json, xml)
\* default json}, no query string gives parsed.query.format = json and a format
\* outside the enum gives 400.
C9_DefaultQuerySchemaAlone ==
    (request.handled /\ request.validated /\ ~CurrentStep.routeQuery.has
        /\ Reached("query")) =>
        LET dflt == CurrentStep.defaultsThen.query
            q == request.rawBefore.query
            failedAtQuery ==
                /\ request.result.status = 400
                /\ request.result.log[Len(request.result.log)] = "query"
        IN /\ failedAtQuery <=> ~Satisfies(dflt, q)
           /\ ~failedAtQuery => request.result.parsed.query = Coerced(dflt, q)
           /\ dflt = FormatDefault =>
                /\ "format" \notin DOMAIN q =>
                     /\ ~failedAtQuery
                     /\ request.result.parsed.query["format"] = Str("json")
                /\ ("format" \in DOMAIN q /\ q["format"].s \notin {"json", "xml"}) =>
                     failedAtQuery

C9_Witness ==
    /\ request.handled
    /\ request.validated
    /\ ~CurrentStep.routeQuery.has
    /\ CurrentStep.defaultsThen.query = FormatDefault
    /\ request.rawBefore.query = EmptyObj
    /\ request.handlerInvoked
    /\ request.result.parsed.query["format"] = Str("json")

----------------------------------------------------------------------------
(* C10 *)

MergedAsClaimed(merged, dflt, route) ==
    /\ DOMAIN merged = DOMAIN dflt \cup DOMAIN route
    /\ \A k \in DOMAIN route : merged[k] = route[k]
    /\ \A k \in DOMAIN dflt \ DOMAIN route : merged[k] = dflt[k]

\* C10: the merged query schema and the merged header schema of a route hold
\* every field of the default schema and every field of the route schema, and
\* a field declared in both is validated by the route's definition.
C10_RouteFieldsTakePrecedence ==
    /\ \A o \in Owners :
         \A i \in 1..Len(layers[o]) :
            LET h == layers[o][i].handlers[1]
            IN IsValidationStep(h) =>
                /\ h.step.routeQuery.has =>
                     MergedAsClaimed(h.step.query, h.step.defaultsThen.query,
                                     h.step.routeQuery.schema)
                /\ h.step.routeHeaders.has =>
                     MergedAsClaimed(h.step.headers, h.step.defaultsThen.headers,
                                     h.step.routeHeaders.schema)
    /\ (request.handled /\ request.validated /\ CurrentStep.routeQuery.has
            /\ Reached("query")) =>
         \A k \in DOMAIN CurrentStep.routeQuery.schema
                    \cap DOMAIN CurrentStep.defaultsThen.query :
            (~Accepts(CurrentStep.routeQuery.schema[k], request.rawBefore.query, k))
                => /\ request.result.status = 400
                   /\ [path |-> k, code |->
                         ParseField(CurrentStep.routeQuery.schema[k],
                                    request.rawBefore.query, k).code]
                        \in request.result.errors

\* format is declared by the default (json, xml) and by the route (csv, json):
\* format=xml, which the default alone accepts, is rejected
C10_Witness ==
    /\ request.handled
    /\ request.validated
    /\ CurrentStep.routeQuery.has
    /\ CurrentStep.routeQuery.schema = FormatRoute
    /\ CurrentStep.defaultsThen.query = FormatDefault
    /\ request.rawBefore.query = [k \in {"format"} |-> Str("xml")]
    /\ request.result.status = 400
    /\ request.result.errors = {[path |-> "format", code |-> "invalid_enum_value"]}

----------------------------------------------------------------------------
(* C11 *)

\* C11: header validation is partial. Once the header parse is reached, a
\* request fails it exactly when it supplies a declared header whose value
\* violates the field's definition; omitting any header, declared or not,
\* never fails it. A failure is a 400 whose issues name the offending headers.
C11_HeaderValidationPartial ==
    (request.handled /\ request.validated /\ Reached("headers")) =>
        LET declared == CurrentStep.headers
            h == request.rawBefore.headers
            bad == {k \in DOMAIN declared \cap DOMAIN h : ~Accepts(declared[k], h, k)}
        IN IF bad = {}
           THEN /\ request.handlerInvoked
                /\ request.result.status = 0
           ELSE /\ ~request.handlerInvoked
                /\ request.result.status = 400
                /\ {e.path : e \in request.result.errors} = bad

\* the route requires x-api-key and x-request-id; the request carries neither
\* and reaches the handler
C11_Witness ==
    /\ request.handled
    /\ request.validated
    /\ CurrentStep.headers = HeaderRoute
    /\ DOMAIN request.rawBefore.headers = {"host"}
    /\ Reached("headers")
    /\ request.handlerInvoked

----------------------------------------------------------------------------
(* The verb methods called in every convention *)

Verbs == {"get", "post", "put", "delete", "patch", "options", "head"}

PathUserId == <<"/", "u", "/", ":", "i", "d">>

\* the argument lists of the verb calls of an application
VerbArgs ==
    {<<ObjArg(PathOptions(PathUserId)), FnArg("h1")>>,
     <<ObjArg(PathOptions(PathUserId)), FnArg("h1"), FnArg("h2")>>,
     <<StrArg(PathUserId), ObjArg(PathOptions(PathUserId)), FnArg("h2"), FnArg("h1")>>,
     <<ObjArg(PathlessOptions), FnArg("h1")>>,
     <<StrArg(PathUserId), FnArg("h1")>>,
     <<StrArg(PathUserId)>>}

AppVerb == \E method \in Verbs : \E args \in VerbArgs : VerbCall("app", method, args)

RouterVerb ==
    \E method \in Verbs :
        VerbCall("rA", method, <<StrArg(PathX), ObjArg(PathOptions(PathX)), FnArg("h1")>>)

NextVerbs == AppVerb \/ RouterVerb

SpecVerbs == Init /\ [][NextVerbs]_vars

\* the two enhanced conventions, as the arguments show them
OptionsFirst(args) == Len(args) > 1 /\ args[1].kind = "object"
PathPlusOptions(args) ==
    Len(args) > 2 /\ args[1].kind = "string" /\ args[2].kind = "object"

----------------------------------------------------------------------------
(* C12 *)

\* C12: a verb call with an options object first, at least one handler and
\* no path field throws; it adds no route definition to any registry and
\* does not call the native method (no layer is registered).
C12_MissingPathThrows ==
    [][(lastCall'.op \in Verbs /\ OptionsFirst(lastCall'.args)
            /\ ~lastCall'.args[1].opts.hasPath)
        => /\ lastCall'.threw
           /\ lastCall'.native = <<>>
           /\ definitions' = definitions
           /\ layers' = layers]_vars

\* the throwing call comes after a route was defined: store and layers keep
\* that one route
C12_Witness ==
    /\ lastCall.op \in Verbs
    /\ lastCall.threw
    /\ OptionsFirst(lastCall.args)
    /\ ~lastCall.args[1].opts.hasPath
    /\ Len(definitions["app"]) = 1
    /\ Len(layers["app"]) = 1

----------------------------------------------------------------------------
(* C13 *)

\* C13: for each verb, a call in the options-first or the path-plus-options
\* convention adds exactly one route definition (the lowercase method, the
\* translated path) to the registry of the application or router it was
\* called on and to no other, and gives the native method the path, then the
\* validation step, then the user handlers in their original order; the
\* registered layer runs the validation step first and the user handlers
\* next, in that order.
C13_EnhancedCallRegistersAndDelegates ==
    [][(lastCall'.op \in Verbs /\ ~lastCall'.threw
            /\ (OptionsFirst(lastCall'.args) \/ PathPlusOptions(lastCall'.args)))
        => LET a == lastCall'.args
               o == lastCall'.target
               path == IF OptionsFirst(a) THEN a[1].opts.path ELSE a[1].str
               handlers == IF OptionsFirst(a) THEN Tail(a) ELSE Tail(Tail(a))
               native == lastCall'.native
               layer == layers'[o][Len(layers'[o])]
           IN /\ definitions'[o] =
                    Append(definitions[o],
                           [request |-> definitions'[o][Len(definitions'[o])].request, path |-> openApiPath(path),
                            method |-> lastCall'.op,
                            responses |-> definitions'[o][Len(definitions'[o])].responses,
                            type |-> "route"])
              /\ \A x \in Owners \ {o} : definitions'[x] = definitions[x]
              /\ Len(native) = Len(handlers) + 2
              /\ native[1] = StrArg(path)
              /\ IsValidationStep(native[2])
              /\ SubSeq(native, 3, Len(native)) = handlers
              /\ Len(layers'[o]) = Len(layers[o]) + 1
              /\ layer.method = lastCall'.op
              /\ layer.path = path
              /\ IsValidationStep(layer.handlers[1])
              /\ Tail(layer.handlers) = handlers]_vars

\* head('/u/:id', opts, h2, h1): one definition head /u/{id}, and the layer
\* runs the validation step, then h2, then h1
C13_Witness ==
    /\ lastCall.op = "head"
    /\ lastCall.target = "app"
    /\ PathPlusOptions(lastCall.args)
    /\ Len(definitions["app"]) = 1
    /\ definitions["app"][1].method = "head"
    /\ definitions["app"][1].path = <<"/", "u", "/", "{", "i", "d", "}">>
    /\ Len(layers["app"]) = 1
    /\ IsValidationStep(layers["app"][1].handlers[1])
    /\ layers["app"][1].handlers[2].id = "h2"
    /\ layers["app"][1].handlers[3].id = "h1"

----------------------------------------------------------------------------
(* C14 *)

\* C14: a verb call in neither enhanced convention (a path followed directly
\* by a handler, a single argument) reaches the native method with its
\* arguments unchanged: no validation step is inserted, every definition
\* store and every generated document stay as they were, and a document holds
\* only the routes defined through the enhanced conventions.
C14_OtherCallsPassThrough ==
    /\ [][(lastCall'.op \in Verbs /\ ~OptionsFirst(lastCall'.args)
                /\ ~PathPlusOptions(lastCall'.args))
            => /\ ~lastCall'.threw
               /\ lastCall'.native = lastCall'.args
               /\ \A i \in 1..Len(lastCall'.native) : ~IsValidationStep(lastCall'.native[i])
               /\ definitions' = definitions
               /\ \A x \in Owners :
                    DocumentOf(x, definitions', mountRegistry')
                        = DocumentOf(x, definitions, mountRegistry)
               /\ \A i \in Len(layers[lastCall'.target]) + 1
                            ..Len(layers'[lastCall'.target]) :
                    layers'[lastCall'.target][i].handlers = Tail(lastCall'.args)]_vars
    /\ [](\A o \in Owners :
            DocumentOf(o, definitions, mountRegistry) \subseteq OwnPairs(o) \cup MountedPairs(o))

\* get('/u/:id', h1) alone: a layer without validation step, an empty store
\* and an empty document
C14_Witness ==
    /\ lastCall.op = "get"
    /\ lastCall.target = "app"
    /\ Len(lastCall.args) = 2
    /\ lastCall.args[1].kind = "string"
    /\ Len(layers["app"]) = 1
    /\ layers["app"][1].handlers = <<FnArg("h1")>>
    /\ definitions["app"] = <<>>
    /\ DocumentOf("app", definitions, mountRegistry) = {}

----------------------------------------------------------------------------
(* Security schemes on an application and on a router mounted on it *)

SchemeNames(o) ==
    CASE o = "app" -> {"appKey"}
      [] o = "rA" -> {"routerKey"}
      [] OTHER -> {}

RegisterScheme ==
    \E o \in Owners : \E name \in SchemeNames(o) : RegisterSecurityScheme(o, name)

RouterRoute ==
    \E method \in {"get", "post"} :
        VerbCall("rA", method, <<ObjArg(PathOptions(PathList)), FnArg("h1")>>)

MountRouter ==
    \E p \in {MountApi, Slash} : Use("app", <<StrArg(p), RouterArg("rA")>>)

NextSchemes == RegisterScheme \/ RouterRoute \/ MountRouter \/ GenerateDocument

SpecSchemes == Init /\ [][NextSchemes]_vars

\* the securitySchemes of the document generateOpenAPIDocument would return for x
SchemesOf(x, allDefs, mounts) ==
    SecuritySchemes(DefinitionsAfterGenerate(x, x, allDefs, mounts))

----------------------------------------------------------------------------
(* C15 *)

\* C15: a security scheme registered on a router's registry is in no
\* application's store and in no document an application generates, whether
\* or not the router is mounted; what generation adds to the application's
\* store are route definitions only.
C15_OnlyRoutesFlowUpward ==
    /\ [](\A o \in Apps : \A r \in Routers :
            /\ SecuritySchemes(definitions[o]) \cap SchemeNames(r) = {}
            /\ SchemesOf(o, definitions, mountRegistry) \cap SchemeNames(r) = {})
    /\ [][\A o \in Apps :
            lastGen'.owner = o /\ lastGen' # lastGen =>
                /\ Len(definitions'[o]) >= Len(definitions[o])
                /\ SubSeq(definitions'[o], 1, Len(definitions[o])) = definitions[o]
                /\ \A i \in Len(definitions[o]) + 1..Len(definitions'[o]) :
                      definitions'[o][i].type = "route"]_vars

\* the application generated its document with rA mounted; rA holds a route
\* and a security scheme; the route came up, the scheme did not
C15_Witness ==
    /\ lastGen.owner = "app"
    /\ Len(mountRegistry["app"]) >= 1
    /\ SecuritySchemes(definitions["rA"]) = {"routerKey"}
    /\ RouteIndices(definitions["rA"]) # {}
    /\ MountedPairs("app") # {}
    /\ MountedPairs("app") \subseteq lastGen.doc
    /\ SecuritySchemes(definitions["app"]) = {"appKey"}

----------------------------------------------------------------------------
(* Route paths: one enhanced route with an arbitrary path string *)

PathAlphabet == {"/", ":", "*", "a", "b", "-"}
PathUsersId == <<"/", "u", "s", "e", "r", "s", "/", ":", "i", "d">>
PathStrings == StringsUpTo(PathAlphabet, MaxPathLen) \cup {PathUsersId}

RouteWithPath ==
    /\ layers["app"] = <<>>
    /\ \E path \in PathStrings :
          VerbCall("app", "get", <<ObjArg(PathOptions(path)), FnArg("h1")>>)

NextPaths == RouteWithPath

SpecPaths == Init /\ [][NextPaths]_vars

\* a parameter of a framework path: a ':' or '*' followed by a name, the
\* longest run of word characters
ParamStart(s, i) == s[i] \in {":", "*"} /\ i < Len(s) /\ s[i + 1] \in WordChars
InName(s, i) ==
    /\ s[i] \in WordChars
    /\ \E j \in 1..(i - 1) : ParamStart(s, j) /\ \A k \in (j + 1)..i : s[k] \in WordChars
NameEnd(s, i) == InName(s, i) /\ (i = Len(s) \/ s[i + 1] \notin WordChars)

ParamNames(s) ==
    {SubSeq(s, j + 1, e) : <<j, e>> \in
        {p \in (1..Len(s)) \X (1..Len(s)) :
            /\ ParamStart(s, p[1])
            /\ p[1] < p[2]
            /\ NameEnd(s, p[2])
            /\ \A k \in (p[1] + 1)..p[2] : s[k] \in WordChars}}

\* the names between braces of an OpenAPI path
BraceNames(s) ==
    {SubSeq(s, p[1] + 1, p[2] - 1) : p \in
        {q \in (1..Len(s)) \X (1..Len(s)) :
            /\ s[q[1]] = "{"
            /\ s[q[2]] = "}"
            /\ q[1] < q[2]
            /\ \A k \in (q[1] + 1)..(q[2] - 1) : s[k] \notin {"{", "}"}}}

\* the path with every parameter marker turned into '{' and a '}' put after
\* every parameter name
Translated(s) ==
    LET f[i \in 0..Len(s)] ==
            IF i = 0 THEN <<>>
            ELSE f[i - 1] \o (IF ParamStart(s, i) THEN <<"{">>
                              ELSE IF NameEnd(s, i) THEN <<s[i], "}">>
                              ELSE <<s[i]>>)
    IN f[Len(s)]

----------------------------------------------------------------------------
(* C16 *)

\* C16: the OpenAPI path of a route is its framework path with every ':name'
\* and '*name' replaced by '{name}' and every other character kept; the brace
\* names of the result are the parameter names of the path, so distinct
\* parameter names give distinct brace names.
C16_PathTranslation ==
    \A o \in Owners :
        \A i \in 1..Len(layers[o]) :
            (IsValidationStep(layers[o][i].handlers[1]) /\ Len(definitions[o]) = Len(layers[o]))
                => LET p == layers[o][i].path
                       q == definitions[o][i].path
                   IN /\ q = Translated(p)
                      /\ BraceNames(q) = ParamNames(p)
                      /\ Len(q) = Len(p) + Cardinality({j \in 1..Len(p) : ParamStart(p, j)})

\* /users/:id becomes /users/{id}
C16_Witness ==
    /\ Len(layers["app"]) = 1
    /\ layers["app"][1].path = PathUsersId
    /\ definitions["app"][1].path = <<"/", "u", "s", "e", "r", "s", "/", "{", "i", "d", "}">>

----------------------------------------------------------------------------
(* Responses: default response maps and routes with their own responses *)

DefaultResponseMaps ==
    {EmptyResponses,
     [k \in {400, 500} |-> IF k = 400 THEN "defaultBadRequest" ELSE "defaultError"]}

RouteResponseMaps ==
    {[k \in {200} |-> "ok"],
     [k \in {200, 400} |-> IF k = 200 THEN "ok" ELSE "routeBadRequest"]}

ResponseOptions ==
    {PathOptions(PathList)}
    \cup {[PathOptions(PathList) EXCEPT !.responses = SomeResponses(r)] :
            r \in RouteResponseMaps}

ConfigureResponses ==
    \E o \in {"app", "rA"} : \E r \in DefaultResponseMaps : SetDefaultResponses(o, r)

DefineRouteWithResponses ==
    \E o \in {"app", "rA"} : \E opts \in ResponseOptions :
        VerbCall(o, "get", <<ObjArg(opts), FnArg("h1")>>)

NextResponses == ConfigureResponses \/ DefineRouteWithResponses

SpecResponses == Init /\ [][NextResponses]_vars

----------------------------------------------------------------------------
(* C17 *)

\* C17: the response map of a newly defined route holds every status of the
\* registry's default map and every status of the route's own map, with the
\* route's entry where it defines the status and the default's entry
\* elsewhere; defining the route leaves the default map as it was.
C17_ResponsesOverlaid ==
    [][\A o \in Owners :
         Len(definitions'[o]) = Len(definitions[o]) + 1 =>
            LET merged == definitions'[o][Len(definitions'[o])].responses
                dflt == defaults[o].responses
                opts == lastCall'.args[1].opts.responses
                route == IF opts.has THEN opts.map ELSE EmptyResponses
            IN /\ DOMAIN merged = DOMAIN dflt \cup DOMAIN route
               /\ \A k \in DOMAIN route : merged[k] = route[k]
               /\ \A k \in DOMAIN dflt \ DOMAIN route : merged[k] = dflt[k]
               /\ defaults' = defaults]_vars

\* the default map defines 400 and 500, the route 200 and 400: the route has
\* 200 and its own 400, and keeps the default 500
C17_Witness ==
    /\ DOMAIN defaults["app"].responses = {400, 500}
    /\ defaults["app"].responses[400] = "defaultBadRequest"
    /\ Len(definitions["app"]) = 1
    /\ DOMAIN definitions["app"][1].responses = {200, 400, 500}
    /\ definitions["app"][1].responses[200] = "ok"
    /\ definitions["app"][1].responses[400] = "routeBadRequest"
    /\ definitions["app"][1].responses[500] = "defaultError"

----------------------------------------------------------------------------
(* Nested query values: a route whose query schema declares an object *)

\* z.object({ filter: z.object({ a: z.string().optional() }) })
FilterQuery == [k \in {"filter"} |-> ObjectField({"a"})]

\* z.object({ 'x-api-key': ..., 'x-page': z.coerce.number().min(1).max(100) })
PagedHeaders ==
    [k \in {"x-api-key", "x-page"} |->
        IF k = "x-api-key" THEN EnumField({"k1"}) ELSE NumberField(1, 100)]

NestedOptions ==
    {Options(PathList, NoSchema, Some(ParamsSchema), Some(FilterQuery), Some(PagedHeaders)),
     Options(PathList, Some(BodySchema), NoSchema, Some(LimitQuery), NoSchema)}

\* ?filter[a]=1, ?filter[a]=1&filter[b]=2, ?filter=x, ?limit=7
NestedQueries ==
    {[k \in {"filter"} |-> Obj([j \in {"a"} |-> Str("1")])],
     [k \in {"filter"} |-> Obj([j \in {"a", "b"} |-> IF j = "a" THEN Str("1") ELSE Str("2")])],
     [k \in {"filter"} |-> Str("x")],
     [k \in {"limit"} |-> Str("7")]}

NestedRequests ==
    [body : RawBodies, params : RawParams, query : NestedQueries,
     headers : {[k \in {"host"} |-> Str("h")],
                [k \in {"host", "x-api-key"} |-> IF k = "host" THEN Str("h") ELSE Str("k1")],
                [k \in {"host", "x-page"} |-> IF k = "host" THEN Str("h") ELSE Str("7")],
                [k \in {"host", "x-page"} |-> IF k = "host" THEN Str("h") ELSE Str("200")]}]

DefineNestedRoute ==
    \E opts \in NestedOptions : VerbCall("app", "get", <<ObjArg(opts), FnArg("h1")>>)

ServeNested ==
    \E i \in 1..Len(layers["app"]), raw \in NestedRequests : HandleRequest("app", i, raw)

NextNested == DefineNestedRoute \/ ServeNested \/ EndRequest

SpecNested == Init /\ [][NextNested]_vars

----------------------------------------------------------------------------
(* C18 *)

\* C18: after a successful validation step the raw fields agree with the
\* parsed namespace: the raw body is parsed.body when a body schema is
\* declared, and every key of parsed.params, parsed.query and parsed.headers
\* is in the corresponding raw field with the same value.
C18_RawAgreesWithParsed ==
    (request.handled /\ request.validated /\ request.result.status = 0) =>
        LET parsed == request.result.parsed
            raw == request.result.raw
        IN /\ CurrentStep.body.has => raw.body = parsed.body
           /\ \A dim \in {"params", "query", "headers"} :
                \A k \in DOMAIN parsed[dim] :
                    /\ k \in DOMAIN raw[dim]
                    /\ raw[dim][k] = parsed[dim][k]

----------------------------------------------------------------------------
(* C20 *)

\* C20: after a successful validation step every header that was on the
\* request before the step is still on it; a header the merged header schema
\* does not declare has the value it had, and a declared one has either the
\* value it had or its parsed value.
C20_UndeclaredHeadersUntouched ==
    (request.handled /\ request.validated /\ request.result.status = 0) =>
        LET before == request.rawBefore.headers
            after == request.result.raw.headers
            parsed == request.result.parsed.headers
        IN \A k \in DOMAIN before :
              /\ k \in DOMAIN after
              /\ IF k \in DOMAIN CurrentStep.headers
                 THEN after[k] = parsed[k]
                 ELSE after[k] = before[k]

\* x-page arrives as "7" and is replaced by the number 7; host is not
\* declared and keeps its value
C20_Witness ==
    /\ request.handled
    /\ request.validated
    /\ request.result.status = 0
    /\ CurrentStep.headers = PagedHeaders
    /\ DOMAIN request.rawBefore.headers = {"host", "x-page"}
    /\ request.result.raw.headers["host"] = request.rawBefore.headers["host"]
    /\ request.result.raw.headers["x-page"] = Num(7)

----------------------------------------------------------------------------
(* Several requests inside the validation step of one route *)

SharedRouteOptions ==
    Options(PathUsers, Some(BodySchema), Some(ParamsSchema), Some(LimitQuery),
            Some(HeaderRoute))

ConcurrentRequests ==
    {[query |-> [k \in {"limit"} |-> Str("7")],
      headers |-> [k \in {"host"} |-> Str("h")],
      body |-> [k \in {"name"} |-> Str("bob")],
      params |-> [k \in {"id"} |-> Str("u1")]],
     [query |-> EmptyObj,
      headers |-> [k \in {"host", "x-api-key"} |-> IF k = "host" THEN Str("h") ELSE Str("k1")],
      body |-> [k \in {"name"} |-> Str("bob")],
      params |-> [k \in {"id"} |-> Str("u1")]],
     [query |-> [k \in {"limit"} |-> Str("200")],
      headers |-> [k \in {"host"} |-> Str("h")],
      body |-> [k \in {"name"} |-> Str("bob")],
      params |-> [k \in {"id"} |-> Str("u1")]],
     [query |-> EmptyObj,
      headers |-> [k \in {"host"} |-> Str("h")],
      body |-> EmptyObj,
      params |-> [k \in {"id"} |-> Str("nope")]]}

DefineSharedRoute ==
    VerbCall("app", "post", <<ObjArg(SharedRouteOptions), FnArg("h1")>>)

RequestArrives ==
    \E id \in 1..MaxInflight : \E i \in 1..Len(layers["app"]) :
        \E raw \in ConcurrentRequests : Arrive(id, "app", i, raw)

RequestAdvances == \E id \in 1..MaxInflight : Advance(id)

RequestDeparts == \E id \in 1..MaxInflight : Depart(id)

NextConcurrent ==
    DefineSharedRoute \/ RequestArrives \/ RequestAdvances \/ RequestDeparts

SpecConcurrent == Init /\ [][NextConcurrent]_vars

\* the validation step run on a request by itself, up to and including its
\* n-th parse statement
AloneUpTo(step, raw, n) ==
    LET f[i \in 0..n] ==
            IF i = 0 THEN Start(raw)
            ELSE Stage(f[i - 1], Dims[i], Declared(step, i), SchemaOfDim(step, i))
    IN f[n]

----------------------------------------------------------------------------
(* C19 *)

\* C19: however the requests inside a validation step are interleaved, the
\* parsed namespace, the raw fields and the outcome of each of them are at
\* every moment what the step computes from that request's own raw fields
\* alone.
C19_PerRequestIsolation ==
    \A id \in 1..MaxInflight :
        inflight[id].active =>
            LET r == inflight[id]
                step == layers[r.owner][r.layer].handlers[1].step
            IN /\ r.st = AloneUpTo(step, r.raw,
                                   IF r.st.thrown THEN Len(Dims) ELSE r.pc - 1)
               /\ r.pc = Len(Dims) + 1 => Finish(r.st) = validationMiddleware(step, r.raw)

\* two requests half way through the same step: the first has its limit
\* parsed and its headers pending, the second has just failed on its query
C19_Witness ==
    /\ inflight[1].active
    /\ inflight[2].active
    /\ inflight[1].layer = inflight[2].layer
    /\ inflight[1].raw # inflight[2].raw
    /\ inflight[1].pc = 4
    /\ inflight[1].st.parsed.query = [k \in {"limit"} |-> Num(7)]
    /\ inflight[2].st.thrown
    /\ inflight[2].st.log = <<"body", "params", "query">>

----------------------------------------------------------------------------
(* Configuration: setInfo, addServer and documents generated with and      *)
(* without a config override                                                *)

\* the arguments of setInfo: the first with a description, the second without
Infos ==
    {[title |-> "Test API", version |-> "2.0.0", description |-> "A test API"],
     [title |-> "Other API", version |-> "3.0.0"]}

ServerDev == [description |-> "Dev", url |-> "http://localhost:3000"]
ServerProd == [description |-> "Prod", url |-> "https://api.example.com"]

\* the config overrides passed to generateOpenAPIDocument
Overrides ==
    {[k \in {"info"} |-> CfgInfo([title |-> "Preview", version |-> "0.0.1"])],
     [k \in {"openapi", "servers"} |->
        IF k = "openapi" THEN CfgText("3.0.3") ELSE CfgList(<<ServerProd>>)]}

\* the application is configured with every argument, the router with one
InfosOf(o) == IF o = "app" THEN Infos ELSE {i \in Infos : "description" \notin DOMAIN i}
ServersOf(o) == IF o = "app" THEN {ServerDev, ServerProd} ELSE {ServerProd}

ConfigureInfo == \E o \in {"app", "rA"} : \E info \in InfosOf(o) : SetInfo(o, info)

ConfigureServer ==
    \E o \in {"app", "rA"} : \E server \in ServersOf(o) : AddServer(o, server)

GenerateOverridden == \E override \in Overrides : GenerateWith("app", override)

NextConfig == ConfigureInfo \/ ConfigureServer \/ GenerateOverridden \/ GenerateDocument

SpecConfig == Init /\ [][NextConfig]_vars

\* what generateOpenAPIDocument() would render for o: its top-level keys, its
\* servers list and its info
ShownConfig(o) == RenderedConfig(ConfigOf(o), EmptyConfig)
ShownServers(o) ==
    IF "servers" \in DOMAIN ShownConfig(o) THEN ShownConfig(o)["servers"].items ELSE <<>>
ShownInfo(o) == ShownConfig(o)["info"].fields

----------------------------------------------------------------------------
(* C21 *)

\* C21: generateOpenAPIDocument(configOverride) renders the override's
\* top-level keys in place of the persisted keys of the same name and every
\* other persisted key as it is; the call leaves the persisted config as it
\* was, so a call without override renders the persisted openapi, info and
\* servers values, also right after a call with an override.
C21_OverrideIsShallowAndTransient ==
    /\ [][(lastGen' # lastGen /\ lastGen'.owner # "none") =>
            LET persisted == ConfigOf(lastGen'.owner)
                given == lastGen'.override
                shown == lastGen'.config
            IN /\ ~lastGen'.threw
               /\ DOMAIN shown = DOMAIN persisted \cup DOMAIN given
               /\ \A k \in DOMAIN given : shown[k] = given[k]
               /\ \A k \in DOMAIN persisted \ DOMAIN given : shown[k] = persisted[k]
               /\ openApiConfig' = openApiConfig]_vars
    /\ []((lastGen.owner # "none" /\ lastGen.override = EmptyConfig) =>
            /\ lastGen.config = ConfigOf(lastGen.owner)
            /\ \A k \in {"openapi", "info"} : k \in DOMAIN lastGen.config)

\* the application set its info and a server, generated a document with an
\* info override and then one without: the first showed the override's info
\* and the persisted server, the second shows the persisted info again
C21_Witness ==
    /\ lastGen.owner = "app"
    /\ lastGen.streak = 2
    /\ lastGen.override = EmptyConfig
    /\ lastGen.prevConfig["info"].fields["title"] = "Preview"
    /\ "servers" \in DOMAIN lastGen.prevConfig
    /\ lastGen.prevConfig["servers"].items = <<ServerDev>>
    /\ lastGen.config["info"].fields["title"] = "Test API"
    /\ lastGen.config["servers"].items = <<ServerDev>>
    /\ lastGen.config["openapi"].text = "3.0.0"

----------------------------------------------------------------------------
(* C23 *)

----------------------------------------------------------------------------
(* Mount Records whose registry has no definitions: a function that carries *)
(* the router marker and an empty registry object is mounted next to real   *)
(* routers                                                                   *)

MountStub ==
    \E stub \in Stubs :
        \/ \E p \in {MountApi, Slash} : Use("app", <<StrArg(p), RouterArg(stub)>>)
        \/ Use("app", <<RouterArg(stub)>>)

RouteBesideStub ==
    \E o \in {"app", "rA"} : \E r \in Routes(o) :
        VerbCall(o, r[1], <<ObjArg(PathOptions(r[2])), FnArg("h1")>>)

NextGuards == RouteBesideStub \/ MountRouter \/ MountStub \/ GenerateDocument

SpecGuards == Init /\ [][NextGuards]_vars

\* the Mount Records of o that lead to a registry with definitions
SoundMounts(o) ==
    {i \in 1..Len(mountRegistry[o]) : mountRegistry[o][i].registry \in Owners}

----------------------------------------------------------------------------
(* C22 *)

\* C22: generating the application's document does not raise when a Mount
\* Record leads to a registry without definitions; the record contributes
\* nothing, and the application's own routes and the routes of every other
\* Mount Record are in the document under their combined paths.
C22_MalformedMountSkipped ==
    \A o \in Apps :
        lastGen.owner = o =>
            LET mounted ==
                  UNION {{<<Join(mountRegistry[o][i].path, d.path), d.method>> :
                            d \in {definitions[mountRegistry[o][i].registry][k] :
                                     k \in RouteIndices(
                                             definitions[mountRegistry[o][i].registry])}} :
                         i \in SoundMounts(o)}
            IN /\ ~lastGen.threw
               /\ OwnPairs(o) \subseteq lastGen.doc
               /\ mounted \subseteq lastGen.doc
               /\ lastGen.doc \subseteq OwnPairs(o) \cup mounted

\* the application has a route of its own and mounted the stub first and rA
\* second; its document holds its own route and rA's route under /api
C22_Witness ==
    /\ lastGen.owner = "app"
    /\ ~lastGen.threw
    /\ Len(mountRegistry["app"]) = 2
    /\ mountRegistry["app"][1].registry \in Stubs
    /\ mountRegistry["app"][2] = [path |-> MountApi, registry |-> "rA"]
    /\ Len(layers["app"]) = 1
    /\ Len(definitions["rA"]) = 1
    /\ lastGen.doc = {<<PathList, "get">>, <<MountApi \o PathList, definitions["rA"][1].method>>}

----------------------------------------------------------------------------
(* C24 *)

\* C24: whenever an application generates its document, every route that a
\* directly mounted router holds at that moment is in the document under
\* its combined path, whether the route was defined before the mount call,
\* after it, or after an earlier generateOpenAPIDocument call.
C24_PathsCombinedAtGeneration ==
    [][\A o \in Apps :
         (lastGen' # lastGen /\ lastGen'.owner = o) =>
            \A i \in 1..Len(mountRegistry[o]) :
                LET m == mountRegistry[o][i]
                IN m.registry \in Owners =>
                     \A k \in RouteIndices(definitions[m.registry]) :
                        LET d == definitions[m.registry][k]
                        IN <<Join(m.path, d.path), d.method>> \in lastGen'.doc]_vars

\* rA defined get /list and was mounted at /api; the application generated
\* its document (its store got get /api/list); then rA defined post /list
\* and the application generated again: the document has post /api/list
C24_Witness ==
    /\ lastGen.owner = "app"
    /\ mountRegistry["app"] = <<[path |-> MountApi, registry |-> "rA"]>>
    /\ layers["app"] = <<>>
    /\ Len(definitions["rA"]) = 2
    /\ definitions["rA"][2].method = "post"
    /\ Len(definitions["app"]) = 3
    /\ definitions["app"][1].method = "get"
    /\ definitions["app"][2].method = "get"
    /\ definitions["app"][3].method = "post"
    /\ <<MountApi \o PathList, "post">> \in lastGen.doc

----------------------------------------------------------------------------
(* C25 *)

\* C25: a generateOpenAPIDocument call changes no definition store but the
\* caller's own and no mount list at all, and a use() call changes no
\* definition store; so every router's store holds, at any time, exactly the
\* routes defined through the router's own verb methods, in the order
\* defined, each under the path it was defined with (translated, never
\* prefixed by a mount path).
C25_GenerationLeavesChildrenAlone ==
    /\ [][(lastGen' # lastGen /\ lastGen'.owner \in Owners) =>
            /\ \A x \in Owners \ {lastGen'.owner} : definitions'[x] = definitions[x]
            /\ mountRegistry' = mountRegistry]_vars
    /\ [][mountRegistry' # mountRegistry => definitions' = definitions]_vars
    /\ [](\A r \in Routers :
            /\ Len(definitions[r]) = Len(layers[r])
            /\ \A i \in 1..Len(definitions[r]) :
                  /\ definitions[r][i].type = "route"
                  /\ definitions[r][i].path = openApiPath(layers[r][i].path)
                  /\ definitions[r][i].method = layers[r][i].method)

\* the application mounted rA at /api and generated its document twice: the
\* application's store has grown by rA's route under /api/list, rA still
\* holds its one route under /list and has no Mount Record
C25_Witness ==
    /\ lastGen.owner = "app"
    /\ lastGen.streak = 2
    /\ mountRegistry["app"] = <<[path |-> MountApi, registry |-> "rA"]>>
    /\ mountRegistry["rA"] = <<>>
    /\ Len(definitions["rA"]) = 1
    /\ definitions["rA"][1].path = PathList
    /\ Len(definitions["app"]) = 2
    /\ definitions["app"][1].path = MountApi \o PathList

----------------------------------------------------------------------------
(* Combined paths: one router with one route under an arbitrary path,       *)
(* mounted once on the application under an arbitrary mount path            *)

ChildPaths == StringsUpTo(MountAlphabet, MaxPathLen) \ {<<>>}

ChildRoute ==
    /\ layers["rA"] = <<>>
    /\ \E path \in ChildPaths :
          VerbCall("rA", "get", <<ObjArg(PathOptions(path)), FnArg("h1")>>)

MountChild ==
    /\ mountRegistry["app"] = <<>>
    /\ \E s \in MountStrings : Use("app", <<StrArg(s), RouterArg("rA")>>)

GenerateCombined == Generate("app")

NextCombine == ChildRoute \/ MountChild \/ GenerateCombined

SpecCombine == Init /\ [][NextCombine]_vars

HasDoubleSlash(s) == \E i \in 1..(Len(s) - 1) : s[i] = "/" /\ s[i + 1] = "/"

\* the form of a normalized mount path, and a child path that begins with a
\* single slash
NormalForm(s) == StartsWith(s, "/") /\ (EndsWith(s, "/") => s = Slash)
SingleLeadingSlash(s) == StartsWith(s, "/") /\ (Len(s) > 1 => s[2] # "/")

\* the child path without one leading slash, behind the mount path and a
\* slash ("/" alone when the mount path is "/")
CombinedAsClaimed(mountPath, childPath) ==
    (IF mountPath = Slash THEN <<>> ELSE mountPath)
        \o Slash \o (IF StartsWith(childPath, "/") THEN Tail(childPath) ELSE childPath)

\* the document of the application holds the one route of rA, under path p
CombinedPathIs(p) ==
    /\ lastGen.owner = "app"
    /\ lastGen.doc = {<<p, "get">>}

----------------------------------------------------------------------------
(* C26 *)

\* C26 as stated: the combined path is the child path without one leading
\* '/', behind '/' when the mount path is '/' and behind mountPath + '/'
\* otherwise; for a normalized mount path and a child path that begins with
\* a single '/', it begins with '/' and contains no '//'.
C26_CombinedPathNoDoubleSlash ==
    (lastGen.owner = "app" /\ Len(mountRegistry["app"]) = 1 /\ Len(definitions["rA"]) = 1) =>
        LET mountPath == mountRegistry["app"][1].path
            childPath == definitions["rA"][1].path
            combined == CombinedAsClaimed(mountPath, childPath)
        IN /\ CombinedPathIs(combined)
           /\ (NormalForm(mountPath) /\ SingleLeadingSlash(childPath)) =>
                /\ StartsWith(combined, "/")
                /\ ~HasDoubleSlash(combined)

\* C26, amended: the combined path is computed as stated; when the mount
\* path starts with '/' and does not end with '/' unless it is '/', the
\* child path begins with '/', and neither of the two contains '//', the
\* combined path begins with '/' and contains no '//'.
C26_CombinedPathOfCleanPaths ==
    (lastGen.owner = "app" /\ Len(mountRegistry["app"]) = 1 /\ Len(definitions["rA"]) = 1) =>
        LET mountPath == mountRegistry["app"][1].path
            childPath == definitions["rA"][1].path
            combined == CombinedAsClaimed(mountPath, childPath)
        IN /\ CombinedPathIs(combined)
           /\ (/\ NormalForm(mountPath)
               /\ StartsWith(childPath, "/")
               /\ ~HasDoubleSlash(mountPath)
               /\ ~HasDoubleSlash(childPath)) =>
                /\ StartsWith(combined, "/")
                /\ ~HasDoubleSlash(combined)

\* mount path /a/a and child path /aa give /a/a/aa
C26_Witness ==
    /\ Len(mountRegistry["app"]) = 1
    /\ mountRegistry["app"][1].path = <<"/", "a", "/", "a">>
    /\ Len(definitions["rA"]) = 1
    /\ definitions["rA"][1].path = <<"/", "a", "a">>
    /\ CombinedPathIs(<<"/", "a", "/", "a", "/", "a", "a">>)

----------------------------------------------------------------------------
(* use() called with every shape of argument list *)

MountSlashA == <<"a", "/">>

\* use(router), use(path, router), use(path, router, mw), use(mw),
\* use(path, mw), use(path, mw, router), use(mw, router), use(router, router)
UseArgs ==
    {<<RouterArg(r)>> : r \in Routers}
    \cup {<<StrArg(p), RouterArg(r)>> : p \in {MountApi, MountSlashA}, r \in Routers}
    \cup {<<StrArg(MountApi), RouterArg(r), FnArg("mw")>> : r \in Routers}
    \cup {<<FnArg("mw")>>, <<StrArg(MountApi), FnArg("mw")>>}
    \cup {<<StrArg(MountApi), FnArg("mw"), RouterArg(r)>> : r \in Routers}
    \cup {<<FnArg("mw"), RouterArg(r)>> : r \in Routers}
    \cup {<<RouterArg("rA"), RouterArg("rB")>>}

UseAny ==
    \E o \in Owners : \E args \in UseArgs :
        /\ \A i \in 1..Len(args) : args[i].kind = "function" => args[i].id # o
        /\ Use(o, args)

NextUse == UseAny \/ GenerateDocument

SpecUse == Init /\ [][NextUse]_vars

\* a step in which use() was called
UseStep ==
    /\ lastCall'.op = "use"
    /\ lastCall' # lastCall \/ mountRegistry' # mountRegistry

\* the effect of a use() step that records `records`
UseRecorded(records) ==
    /\ mountRegistry'[lastCall'.target] = mountRegistry[lastCall'.target] \o records
    /\ \A x \in Owners \ {lastCall'.target} : mountRegistry'[x] = mountRegistry[x]
    /\ lastCall'.native = lastCall'.args
    /\ ~lastCall'.threw

----------------------------------------------------------------------------
(* C27 *)

\* C27 as stated: a use() call appends one Mount Record when an enhanced
\* router is its only argument (path '/') or the argument right behind the
\* path (normalized path) and none in every other case; no step removes or
\* reorders Mount Records; the native use gets the original arguments.
C27_OneRecordOnlyBehindPath ==
    [][IF UseStep
       THEN LET a == lastCall'.args
            IN UseRecorded(
                 IF Len(a) = 1 /\ IsRouterPlus(a[1])
                 THEN <<[path |-> Slash, registry |-> a[1].id]>>
                 ELSE IF Len(a) >= 2 /\ a[1].kind = "string" /\ IsRouterPlus(a[2])
                 THEN <<[path |-> normalizeMountPath(a[1].str), registry |-> a[2].id]>>
                 ELSE <<>>)
       ELSE mountRegistry' = mountRegistry]_vars

\* C27, amended: a use() call appends one Mount Record when an enhanced
\* router is its only argument (path '/') or its second argument (the
\* normalized first argument when that is a string, '/' when it is not) and
\* none in every other case, including a plain middleware and an enhanced
\* router in third or later position; no step removes or reorders Mount
\* Records; the native use gets the original arguments.
C27_OneRecordForSoleOrSecond ==
    [][IF UseStep
       THEN LET a == lastCall'.args
            IN UseRecorded(
                 IF Len(a) = 1 /\ IsRouterPlus(a[1])
                 THEN <<[path |-> Slash, registry |-> a[1].id]>>
                 ELSE IF Len(a) >= 2 /\ IsRouterPlus(a[2])
                 THEN <<[path |-> IF a[1].kind = "string"
                                  THEN normalizeMountPath(a[1].str) ELSE Slash,
                         registry |-> a[2].id]>>
                 ELSE <<>>)
       ELSE mountRegistry' = mountRegistry]_vars

\* use(mw, rA) on the application: rA is recorded under '/'
C27_Witness ==
    /\ lastCall.op = "use"
    /\ lastCall.target = "app"
    /\ Len(lastCall.args) = 2
    /\ lastCall.args[1].kind = "function"
    /\ lastCall.args[1].id = "mw"
    /\ lastCall.args[2].id = "rA"
    /\ lastCall.native = lastCall.args
    /\ Len(mountRegistry["app"]) = 1
    /\ mountRegistry["app"][1].path = Slash
    /\ mountRegistry["app"][1].registry = "rA"

----------------------------------------------------------------------------
(* Defaults changed between route definitions, and requests to the routes   *)

DefaultedOptions ==
    {PathOptions(PathUsers),
     [Options(PathUsers, NoSchema, NoSchema, Some(LimitQuery), NoSchema)
        EXCEPT !.responses = SomeResponses([k \in {200} |-> "ok"])]}

DefaultedRequests ==
    [body : {EmptyObj}, params : {EmptyObj},
     query : {EmptyObj, [k \in {"format"} |-> Str("csv")]},
     headers : RawHeaders]

ChangeQueryDefault == \E s \in DefaultQuerySchemas : SetDefaultQuerySchema("app", s)

ChangeHeaderDefault == \E s \in DefaultHeaderSchemas : SetDefaultHeaderSchema("app", s)

ChangeResponseDefault == \E r \in DefaultResponseMaps : SetDefaultResponses("app", r)

DefineDefaultedRoute ==
    \E opts \in DefaultedOptions : VerbCall("app", "get", <<ObjArg(opts), FnArg("h1")>>)

ServeDefaulted ==
    \E i \in 1..Len(layers["app"]), raw \in DefaultedRequests : HandleRequest("app", i, raw)

NextDefaults ==
    \/ ChangeQueryDefault
    \/ ChangeHeaderDefault
    \/ ChangeResponseDefault
    \/ DefineDefaultedRoute
    \/ ServeDefaulted
    \/ EndRequest

SpecDefaults == Init /\ [][NextDefaults]_vars

\* a default set overlaid with a route's own set, key by key
Overlaid(dflt, own) ==
    [k \in DOMAIN dflt \cup DOMAIN own |-> IF k \in DOMAIN own THEN own[k] ELSE dflt[k]]

----------------------------------------------------------------------------
(* C28 *)

\* C28: a step that changes a default query, header or response set changes
\* no validation step and no route definition; a newly defined route is
\* validated and documented with the defaults in effect just before its
\* definition, overlaid with its own sets, and the routes defined earlier
\* stay as they were; a request is rejected exactly when it violates the
\* schemas its route got at definition.
C28_DefaultsFixedAtDefinition ==
    /\ [][defaults' # defaults => (layers' = layers /\ definitions' = definitions)]_vars
    /\ [][\A o \in Owners :
            Len(layers'[o]) = Len(layers[o]) + 1 =>
                LET h == layers'[o][Len(layers'[o])].handlers[1]
                    d == definitions'[o][Len(definitions'[o])]
                    opts == lastCall'.args[1].opts
                    query == IF opts.query.has
                             THEN Overlaid(defaults[o].query, opts.query.schema)
                             ELSE defaults[o].query
                    headers == IF opts.headers.has
                               THEN Overlaid(defaults[o].headers, opts.headers.schema)
                               ELSE defaults[o].headers
                    responses == IF opts.responses.has
                                 THEN Overlaid(defaults[o].responses, opts.responses.map)
                                 ELSE defaults[o].responses
                IN /\ IsValidationStep(h)
                   /\ h.step.query = query
                   /\ h.step.headers = headers
                   /\ d.request.query = query
                   /\ d.request.headers = headers
                   /\ d.responses = responses
                   /\ SubSeq(layers'[o], 1, Len(layers[o])) = layers[o]
                   /\ SubSeq(definitions'[o], 1, Len(definitions[o])) = definitions[o]]_vars
    /\ []((request.handled /\ request.validated) =>
            (request.result.status = 400
                <=> \E i \in 1..Len(Dims) : Violates(CurrentStep, request.rawBefore, i)))

\* the first route was defined under the empty defaults and the second after
\* the default query schema became {format} and the default responses
\* {400, 500}; format=csv, which the new default rejects, passes on the
\* first route, whose document entry has no query field and no response
\* while the second has the defaults
C28_Witness ==
    /\ defaults["app"].query = FormatDefault
    /\ DOMAIN defaults["app"].responses = {400, 500}
    /\ Len(layers["app"]) = 2
    /\ DOMAIN definitions["app"][1].request.query = {}
    /\ DOMAIN definitions["app"][1].responses = {}
    /\ DOMAIN definitions["app"][2].request.query = {"format"}
    /\ DOMAIN definitions["app"][2].responses = {400, 500}
    /\ request.handled
    /\ request.layer = 1
    /\ "format" \in DOMAIN request.rawBefore.query
    /\ request.result.status = 0
    /\ request.handlerInvoked

----------------------------------------------------------------------------
(* The validation step called with a continuation of the caller's: next()   *)
(* is the last statement of the try block, so what it throws is caught by   *)
(* the same catch block as a failed parse                                    *)

\* err.errors = error.errors || error.message, for an error that is no ZodError
MessageOnly == {[path |-> "", code |-> "message"]}

\* the end of the try block and the catch block: nextThrows says whether the
\* call next() throws synchronously
FinishIn(st, nextThrows) ==
    [raw |-> st.raw,
     parsed |-> st.parsed,
     log |-> st.log,
     errors |-> IF st.thrown THEN st.errors
                ELSE IF nextThrows THEN MessageOnly
                ELSE {},
     nextCalls |-> IF st.thrown THEN <<"error">>
                   ELSE IF nextThrows THEN <<"next", "error">>
                   ELSE <<"next">>,
     status |-> IF st.thrown \/ nextThrows THEN 400 ELSE 0]

validationMiddlewareIn(step, req, nextThrows) ==
    LET s1 == Stage(Start(req), "body", step.body.has, step.body.schema)
        s2 == Stage(s1, "params", step.params.has, step.params.schema)
        s3 == Stage(s2, "query", TRUE, step.query)
        s4 == Stage(s3, "headers", TRUE, Partial(step.headers))
    IN FinishIn(s4, nextThrows)

\* the step of layer i of o called as middleware(req, res, next)
CallMiddleware(o, i, raw, nextThrows) ==
    /\ i \in 1..Len(layers[o])
    /\ IsValidationStep(layers[o][i].handlers[1])
    /\ ~request.handled
    /\ LET res == validationMiddlewareIn(layers[o][i].handlers[1].step, raw, nextThrows)
       IN request' =
            [owner |-> o, handled |-> TRUE, layer |-> i, rawBefore |-> raw,
             result |-> res,
             validated |-> TRUE,
             handlerInvoked |-> res.nextCalls[1] = "next"]
    /\ UNCHANGED <<definitions, mountRegistry, defaults, layers, lastGen, lastCall, inflight, openApiConfig>>

ChainOptions ==
    {PathOptions(PathUsers),
     Options(PathUsers, Some(BodySchema), Some(ParamsSchema), Some(LimitQuery),
             Some(HeaderRoute))}

ChainRequests ==
    [body : RawBodies, params : {[k \in {"id"} |-> Str("u1")]},
     query : {EmptyObj, [k \in {"limit", "debug"} |-> IF k = "limit" THEN Str("200") ELSE Str("1")]},
     headers : {[k \in {"host"} |-> Str("h")]}]

DefineChainRoute ==
    \E o \in Owners, opts \in ChainOptions :
        VerbCall(o, "get", <<ObjArg(opts), FnArg("h1")>>)

CallStep ==
    \E o \in Owners, i \in 1..MaxStore, raw \in ChainRequests, nextThrows \in BOOLEAN :
        CallMiddleware(o, i, raw, nextThrows)

NextChain == DefineChainRoute \/ CallStep \/ EndRequest

SpecChain == Init /\ [][NextChain]_vars

----------------------------------------------------------------------------
(* C29 *)

\* C29: the validation step calls the continuation exactly once for a
\* request, without argument or with the status-400 error and never both,
\* and the status-400 error is passed on only when a schema parse of the
\* request failed.
C29_ContinuationCalledOnce ==
    (request.handled /\ request.validated) =>
        /\ request.result.nextCalls \in {<<"next">>, <<"error">>}
        /\ request.result.status = 400 =>
                \E i \in 1..Len(Dims) : Violates(CurrentStep, request.rawBefore, i)

\* every parse of the request passed, next() was called and threw, and the
\* catch block called next(err) with status 400
C29_CalledTwice ==
    /\ request.handled
    /\ request.validated
    /\ \A i \in 1..Len(Dims) : ~Violates(CurrentStep, request.rawBefore, i)
    /\ request.result.nextCalls = <<"next", "error">>
    /\ request.result.status = 400

----------------------------------------------------------------------------
(* C30 *)

\* the first dimension, in validation order, that the handled request violates
FailingDim ==
    CHOOSE i \in 1..Len(Dims) :
        /\ Violates(CurrentStep, request.rawBefore, i)
        /\ \A j \in 1..(i - 1) : ~Violates(CurrentStep, request.rawBefore, j)

\* C30: when a dimension fails after earlier dimensions of the request
\* passed, then at the time the status-400 error is raised the parsed
\* namespace of every earlier declared dimension holds its parsed value and
\* the raw field agrees with it (the raw body is the parsed body; every key
\* of the parsed params, query and headers is in the raw field with the same
\* value), while the failing and the later dimensions have their raw values
\* in both.
C30_EarlierDimensionsKeptOnFailure ==
    (request.handled /\ request.validated /\ request.result.status = 400) =>
        LET parsed == request.result.parsed
            raw == request.result.raw
        IN \A i \in 1..Len(Dims) :
              LET dim == Dims[i]
              IN IF i < FailingDim
                 THEN Declared(CurrentStep, i) =>
                        /\ parsed[dim] = Coerced(SchemaOfDim(CurrentStep, i), request.rawBefore[dim])
                        /\ IF dim = "body"
                           THEN raw[dim] = parsed[dim]
                           ELSE \A k \in DOMAIN parsed[dim] :
                                   /\ k \in DOMAIN raw[dim]
                                   /\ raw[dim][k] = parsed[dim][k]
                 ELSE /\ parsed[dim] = request.rawBefore[dim]
                      /\ raw[dim] = request.rawBefore[dim]

\* the query ?filter[a]=1&filter[b]=2 passed and the header x-page: 200
\* failed: parsed.query.filter is {a} while the raw query still has filter.b
C30_StaleNestedKeyAtFailure ==
    /\ request.handled
    /\ request.validated
    /\ request.result.status = 400
    /\ FailingDim = 4
    /\ "filter" \in DOMAIN request.result.parsed.query
    /\ request.result.raw.query["filter"] # request.result.parsed.query["filter"]

\* the same statement with the raw query left out of the comparison
C30_ExceptRawQuery ==
    (request.handled /\ request.validated /\ request.result.status = 400) =>
        LET parsed == request.result.parsed
            raw == request.result.raw
        IN \A i \in 1..Len(Dims) :
              LET dim == Dims[i]
              IN IF i < FailingDim
                 THEN Declared(CurrentStep, i) =>
                        /\ parsed[dim] = Coerced(SchemaOfDim(CurrentStep, i), request.rawBefore[dim])
                        /\ IF dim = "body"
                           THEN raw[dim] = parsed[dim]
                           ELSE dim # "query" =>
                                  \A k \in DOMAIN parsed[dim] :
                                     /\ k \in DOMAIN raw[dim]
                                     /\ raw[dim][k] = parsed[dim][k]
                 ELSE /\ parsed[dim] = request.rawBefore[dim]
                      /\ raw[dim] = request.rawBefore[dim]

----------------------------------------------------------------------------
(* Registries created from options that carry an openApiConfig object:      *)
(* createRegistry keeps the object it is given, so registries created from  *)
(* the same options hold the same object                                     *)

\* the openApiConfig of the options passed by the caller
SuppliedConfig ==
    [k \in {"openapi", "info"} |->
        IF k = "openapi" THEN CfgText("3.0.0")
        ELSE CfgInfo([title |-> "Shared API", version |-> "1.0.0"])]

\* options.openApiConfig || { ...default }: a registry created without the
\* option gets a fresh default object, one created with it holds the
\* caller's object
CreatedConfig(withOptions) ==
    [ref |-> [o \in Owners |-> IF o \in withOptions THEN "options" ELSE o],
     obj |-> [id \in Owners \cup {"options"} |->
                IF id = "options" THEN SuppliedConfig ELSE DefaultConfig]]

\* the state after construction, for every choice of the registries that
\* were created from the caller's options
InitCreated ==
    /\ definitions = [o \in Owners |-> <<>>]
    /\ mountRegistry = [o \in Owners |-> <<>>]
    /\ defaults = [o \in Owners |->
                    [query |-> EmptySchema, headers |-> EmptySchema,
                     responses |-> EmptyResponses]]
    /\ layers = [o \in Owners |-> <<>>]
    /\ lastGen = NoGen
    /\ lastCall = NoCall
    /\ request = NoRequest
    /\ inflight = [id \in 1..MaxInflight |-> NoFlight]
    /\ \E withOptions \in SUBSET Owners : openApiConfig = CreatedConfig(withOptions)

NextCreated == ConfigureInfo \/ ConfigureServer \/ GenerateDocument

SpecCreated == InitCreated /\ [][NextCreated]_vars

----------------------------------------------------------------------------
(* C31 *)

\* C31: a setInfo or addServer call on one registry leaves the config that
\* every other registry renders in its document as it was, also when the
\* registries were created from the same options.
C31_RegistriesIsolated ==
    [][openApiConfig' # openApiConfig =>
          \A o \in Owners \ {lastCall'.target} :
              RenderedConfig(openApiConfig'.obj[openApiConfig'.ref[o]], EmptyConfig)
                = RenderedConfig(ConfigOf(o), EmptyConfig)]_vars

\* the application and router rA were created from the same options; the
\* router added a server and the application's document now lists it
C31_ServerLeaked ==
    /\ openApiConfig.ref["app"] = openApiConfig.ref["rA"]
    /\ lastCall.op = "addServer"
    /\ lastCall.target = "rA"
    /\ lastGen.owner = "none"
    /\ ShownServers("app") = <<ServerProd>>

\* registries that hold config objects of their own: a setInfo or addServer
\* call on one of them leaves the config rendered by the others as it was
C31_IsolatedWithOwnObjects ==
    [][openApiConfig' # openApiConfig =>
          \A o \in Owners \ {lastCall'.target} :
              openApiConfig.ref[o] # openApiConfig.ref[lastCall'.target] =>
                  RenderedConfig(openApiConfig'.obj[openApiConfig'.ref[o]], EmptyConfig)
                    = RenderedConfig(ConfigOf(o), EmptyConfig)]_vars

----------------------------------------------------------------------------
(* utils.ts: combineRegistries(baseRegistry, mountRegistry) *)

\* JSON.stringify(def.schema): a route definition and a component definition
\* have no schema property, and JSON.stringify(undefined) is undefined
SchemaText(def) == "undefined"

\* def.name is set on a component definition and on no route definition
HasName(def) == "name" \in DOMAIN def

\* baseDef.type === def.type &&
\*   (def.name ? baseDef.name === def.name
\*             : JSON.stringify(baseDef.schema) === JSON.stringify(def.schema))
SameEntry(baseDef, def) ==
    /\ baseDef.type = def.type
    /\ IF HasName(def)
       THEN HasName(baseDef) /\ baseDef.name = def.name
       ELSE SchemaText(baseDef) = SchemaText(def)

\* baseDef.type === 'route' && same route.path && same route.method
SameRoute(baseDef, adjustedDef) ==
    /\ baseDef.type = "route"
    /\ baseDef.path = adjustedDef.path
    /\ baseDef.method = adjustedDef.method

\* as MergedInto, but the root mount compares routes by method and path
RECURSIVE MergedInto_RootByPair(_, _, _, _)
MergedInto_RootByPair(base, path, defs, i) ==
    IF i > Len(defs) THEN base
    ELSE LET def == defs[i]
             adjustedDef == [def EXCEPT !.path = FullPath(path, def.path)]
             present ==
                IF def.type = "route"
                THEN \E j \in 1..Len(base) : SameRoute(base[j], adjustedDef)
                ELSE \E j \in 1..Len(base) : SameEntry(base[j], def)
             pushed == IF def.type = "route" THEN adjustedDef ELSE def
         IN MergedInto_RootByPair(IF present THEN base ELSE Append(base, pushed),
                                  path, defs, i + 1)

\* registry.definitions.forEach of one Mount Record, pushing on baseDefinitions
RECURSIVE MergedInto(_, _, _, _)
MergedInto(base, path, defs, i) ==
    IF i > Len(defs) THEN base
    ELSE LET def == defs[i]
             adjustedDef == [def EXCEPT !.path = FullPath(path, def.path)]
             present ==
                IF path # Slash /\ def.type = "route"
                THEN \E j \in 1..Len(base) : SameRoute(base[j], adjustedDef)
                ELSE \E j \in 1..Len(base) : SameEntry(base[j], def)
             pushed == IF path # Slash /\ def.type = "route" THEN adjustedDef ELSE def
         IN MergedInto(IF present THEN base ELSE Append(base, pushed), path, defs, i + 1)

\* mountRegistry.forEach from record i on: the base definitions at its end
RECURSIVE combineRegistries(_, _, _, _)
combineRegistries(base, allDefs, mounts, i) ==
    IF i > Len(mounts) THEN base
    ELSE combineRegistries(
            IF HasDefinitions(allDefs, mounts[i].registry)
            THEN MergedInto(base, mounts[i].path, allDefs[mounts[i].registry], 1)
            ELSE base,
            allDefs, mounts, i + 1)

\* combineRegistries(o's raw registry, o's Mount Records)
Combine(o) ==
    LET after == combineRegistries(definitions[o], definitions, mountRegistry[o], 1)
    IN /\ Len(after) <= MaxStore
       /\ definitions' = [definitions EXCEPT ![o] = after]
       /\ lastCall' = [target |-> o, op |-> "combineRegistries", threw |-> FALSE,
                       args |-> <<>>, native |-> <<>>, returned |-> o]
       /\ lastGen' = NoGen
       /\ UNCHANGED <<mountRegistry, defaults, layers, request, inflight, openApiConfig>>

----------------------------------------------------------------------------
(* The application with a route of its own and router rA, mounted at the    *)
(* root or under a path, combined into the application's registry           *)

BaseRoute == VerbCall("app", "get", <<ObjArg(PathOptions(PathList)), FnArg("h1")>>)

MountedRoute ==
    \E method \in {"get", "post"}, path \in {PathList, PathX} :
        VerbCall("rA", method, <<ObjArg(PathOptions(path)), FnArg("h1")>>)

MountForCombine ==
    \E p \in {Slash, MountA} : Use("app", <<StrArg(p), RouterArg("rA")>>)

CombineIntoBase == Combine("app")

NextCombineRegistries == BaseRoute \/ MountedRoute \/ MountForCombine \/ CombineIntoBase

SpecCombineRegistries == Init /\ [][NextCombineRegistries]_vars

\* the (combined path, method) pairs of the child routes behind the records
PairsBehind(mounts) ==
    UNION {{<<Join(mounts[i].path, definitions[mounts[i].registry][k].path),
              definitions[mounts[i].registry][k].method>> :
                k \in RouteIndices(definitions[mounts[i].registry])} :
           i \in 1..Len(mounts)}

\* what one more call of combineRegistries makes of the application's store
CombinedNow ==
    combineRegistries(definitions["app"], definitions, mountRegistry["app"], 1)

\* the call adds the missing pairs of the records, once each, and nothing
\* else, and a second call adds nothing
AddsMissingOnce(base, after, mounts) ==
    /\ Len(after) >= Len(base)
    /\ SubSeq(after, 1, Len(base)) = base
    /\ \A pair \in PairsBehind(mounts) : pair \in Paths(after)
    /\ \A j \in (Len(base) + 1)..Len(after) :
          /\ after[j].type = "route"
          /\ <<after[j].path, after[j].method>> \in PairsBehind(mounts) \ Paths(base)
          /\ \A k \in (Len(base) + 1)..Len(after) :
                (after[k].path = after[j].path /\ after[k].method = after[j].method) => k = j
    /\ combineRegistries(after, [definitions EXCEPT !["app"] = after], mounts, 1) = after

----------------------------------------------------------------------------
(* C32 *)

\* C32: combineRegistries(base, mounts) adds to the base definitions every
\* child route whose (method, combined path) pair is not in the base, adds
\* no route whose pair is there, for every mount path including the root,
\* and a second call with the same arguments leaves the base as after the
\* first.
C32_CombineAddsMissingRoutes ==
    AddsMissingOnce(definitions["app"], CombinedNow, mountRegistry["app"])

\* the application has get /list of its own, rA with post /x is mounted at
\* the root, combineRegistries ran, and post /x is not in the base
C32_RootMountDropsRoute ==
    /\ lastCall.op = "combineRegistries"
    /\ Len(mountRegistry["app"]) = 1
    /\ mountRegistry["app"][1].path = Slash
    /\ <<PathList, "get">> \in Paths(definitions["app"])
    /\ <<PathX, "post">> \in Paths(definitions["rA"])
    /\ <<PathX, "post">> \notin Paths(definitions["app"])

\* the same statement for the records mounted under a path other than the root
C32_HoldsOffRoot ==
    LET offRoot == SelectSeq(mountRegistry["app"], LAMBDA rec : rec.path # Slash)
    IN AddsMissingOnce(definitions["app"],
                       combineRegistries(definitions["app"], definitions, offRoot, 1),
                       offRoot)

====
